---- MODULE Spec2Model ----
(***************************************************************************)
(* A model of agent-chat-cli: the session loop (chat_interface.py), the    *)
(* spinner task, and the streaming-event reduction of the A2A client       *)
(* (a2a_client.py handle_user_input) next to the SLIM client               *)
(* (slim_client.py handle_user_input).                                     *)
(*                                                                         *)
(* Text is a sequence of symbols.  A symbol is one character ("a", " ")    *)
(* or one fixed literal of the wire format that the code searches for as   *)
(* a whole:                                                                *)
(*   "S"  {"status":            "M"  ,"message":                           *)
(*   "k"  "ok"   (a JSON string value)      "q"  "   (a string quote)      *)
(*   "U"  UserInputMetaData:    "C"  {"content":                           *)
(*   "I"  ,"is_task_complete":false,"require_user_input":true,             *)
(*        "metadata":{"user_input":true,"input_fields":[{...}]}            *)
(*   "5"  a JSON number         "{" "}"  braces                            *)
(*   "T"  {"text":                                                         *)
(***************************************************************************)
EXTENDS Integers, Sequences, FiniteSets, TLC

\* ------------------------------------------------------------------ text

Whitespace == {" ", "\n", "\t", "\r"}

Letters == {"a", "b", "c"}

RECURSIVE lstrip(_)
lstrip(t) ==
  IF t = <<>> THEN <<>>
  ELSE IF Head(t) \in Whitespace THEN lstrip(Tail(t)) ELSE t

RECURSIVE rstrip(_)
rstrip(t) ==
  IF t = <<>> THEN <<>>
  ELSE IF t[Len(t)] \in Whitespace THEN rstrip(SubSeq(t, 1, Len(t) - 1)) ELSE t

\* str.strip()
strip(t) == rstrip(lstrip(t))

\* str.replace("\r", "")
remove_cr(t) == SelectSeq(t, LAMBDA c : c # "\r")

\* str.startswith(p)
startswith(t, p) == Len(p) <= Len(t) /\ SubSeq(t, 1, Len(p)) = p

\* p in t
contains(t, p) ==
  \E i \in 0..(Len(t) - Len(p)) : SubSeq(t, i + 1, i + Len(p)) = p

\* t.find(sym): the first index of a one-symbol literal, 0 when absent
find(t, sym) ==
  IF \E i \in 1..Len(t) : t[i] = sym
  THEN CHOOSE i \in 1..Len(t) : t[i] = sym /\ \A j \in 1..(i - 1) : t[j] # sym
  ELSE 0

\* the number of characters a symbol stands for
SymLen(sym) ==
  CASE sym = "S" -> 10
    [] sym = "M" -> 11
    [] sym = "k" -> 4
    [] sym = "U" -> 18
    [] sym = "C" -> 11
    [] sym = "I" -> 120
    [] sym = "T" -> 8
    [] sym = "R" -> 9
    [] OTHER -> 1

\* the characters the symbols at the positions ps of t stand for beyond one
\* each
RECURSIVE extra_chars(_, _)
extra_chars(t, ps) ==
  IF ps = {} THEN 0
  ELSE LET p == CHOOSE q \in ps : TRUE
       IN  (SymLen(t[p]) - 1) + extra_chars(t, ps \ {p})

\* len(t)
len(t) == Len(t) + extra_chars(t, {i \in 1..Len(t) : SymLen(t[i]) > 1})

\* the characters a JSON string literal of the model may hold
StringChars == Letters \cup {" ", "U"}

\* q ... q : a JSON string literal
IsJsonString(t) ==
  /\ Len(t) >= 2
  /\ t[1] = "q"
  /\ t[Len(t)] = "q"
  /\ \A i \in 2..(Len(t) - 1) : t[i] \in StringChars

\* json.loads, on the JSON texts the model's grammar has.  kind "error" is
\* JSONDecodeError; "value" is a JSON string, "number" a JSON number: valid
\* JSON that is no object.
json_loads(raw) ==
  LET t == strip(raw)
      n == Len(t)
      none == [kind |-> "error", message |-> <<>>, has_message |-> FALSE,
               content |-> <<>>, has_content |-> FALSE,
               text |-> <<>>, has_text |-> FALSE,
               require_user_input |-> FALSE, has_metadata |-> FALSE]
  IN  IF n = 0 THEN none
      ELSE IF t = <<"k">> \/ IsJsonString(t) THEN [none EXCEPT !.kind = "value"]
      ELSE IF t = <<"5">> THEN [none EXCEPT !.kind = "number"]
      ELSE IF t = <<"{", "}">> THEN [none EXCEPT !.kind = "dict"]
      ELSE IF t[n] # "}" THEN none
      ELSE IF t = <<"S", "k", "}">> THEN [none EXCEPT !.kind = "dict"]
      ELSE IF n >= 6 /\ SubSeq(t, 1, 3) = <<"S", "k", "M">>
                /\ IsJsonString(SubSeq(t, 4, n - 1))
        THEN [none EXCEPT !.kind = "dict", !.has_message = TRUE,
                          !.message = SubSeq(t, 5, n - 2)]
      ELSE IF n >= 4 /\ t[1] = "T" /\ IsJsonString(SubSeq(t, 2, n - 1))
        THEN [none EXCEPT !.kind = "dict", !.has_text = TRUE,
                          !.text = SubSeq(t, 3, n - 2)]
      ELSE IF n >= 4 /\ t[1] = "C" /\ IsJsonString(SubSeq(t, 2, n - 1))
        THEN [none EXCEPT !.kind = "dict", !.has_content = TRUE,
                          !.content = SubSeq(t, 3, n - 2)]
      ELSE IF n >= 5 /\ t[1] = "C" /\ t[n - 1] = "I"
                /\ IsJsonString(SubSeq(t, 2, n - 2))
        THEN [none EXCEPT !.kind = "dict", !.has_content = TRUE,
                          !.content = SubSeq(t, 3, n - 3),
                          !.require_user_input = TRUE, !.has_metadata = TRUE]
      ELSE none

\* the net number of braces a symbol opens
BraceDelta(sym) ==
  IF sym \in {"{", "S", "C", "T"} THEN 1 ELSE IF sym = "}" THEN 0 - 1 ELSE 0

\* the index in `after` of the brace closing an object already open, 0 when
\* there is none
RECURSIVE brace_scan(_, _, _)
brace_scan(after, i, brace_count) ==
  IF i > Len(after) THEN 0
  ELSE LET c == brace_count + BraceDelta(after[i])
       IN  IF after[i] = "}" /\ c = 0 THEN i
           ELSE brace_scan(after, i + 1, c)

\* the while loop of sanitize_stream_text: the fragments kept
RECURSIVE status_scan(_, _, _)
status_scan(text, remaining, cleaned_parts) ==
  LET at == find(remaining, "S") IN
  IF at = 0
  THEN IF strip(remaining) # <<>>
       THEN Append(cleaned_parts, strip(remaining)) ELSE cleaned_parts
  ELSE
    LET before == SubSeq(remaining, 1, at - 1)
        after == SubSeq(remaining, at + 1, Len(remaining))
        parts1 == IF strip(before) # <<>>
                  THEN Append(cleaned_parts, strip(before)) ELSE cleaned_parts
        brace_index == brace_scan(after, 1, 1)
    IN  IF brace_index = 0
        THEN \* no matching brace: the tail is kept inside the loop when it is
             \* not the whole text, and once more by the append after the loop
             IF strip(remaining) # <<>> /\ strip(remaining) # strip(text)
             THEN Append(Append(parts1, strip(remaining)), strip(remaining))
             ELSE Append(parts1, strip(remaining))
        ELSE
          LET payload == json_loads(<<"S">> \o SubSeq(after, 1, brace_index))
              trailing == SubSeq(after, brace_index + 1, Len(after))
              parts2 == IF payload.kind = "dict" /\ payload.has_message
                           /\ strip(payload.message) # <<>>
                        THEN Append(parts1, strip(payload.message))
                        ELSE parts1
          IN  status_scan(text, trailing, parts2)

RECURSIVE dedupe(_)
dedupe(parts) ==
  IF Len(parts) <= 1 THEN parts
  ELSE LET d == dedupe(SubSeq(parts, 1, Len(parts) - 1))
           last == parts[Len(parts)]
       IN  IF d[Len(d)] = last THEN d ELSE Append(d, last)

\* a sanitize_stream_text that keeps the whitespace around the text
sanitize_stream_text_untrimmed(raw_text) == remove_cr(raw_text)

sanitize_stream_text(raw_text) ==
  IF raw_text = <<>> THEN <<>>
  ELSE
    LET text == remove_cr(raw_text)
        data == json_loads(text)
    IN  \* message = data.get("message") or data.get("text")
        IF data.kind = "dict" /\ data.has_message /\ data.message # <<>>
        THEN strip(data.message)
        ELSE IF data.kind = "dict" /\ data.has_text
        THEN strip(data.text)
        ELSE
          LET cleaned_parts == status_scan(text, text, <<>>)
              deduped == dedupe(cleaned_parts)
          IN  IF cleaned_parts = <<>> THEN strip(text)
              ELSE IF Len(deduped) >= 2
                THEN IF len(deduped[Len(deduped)]) >= len(deduped[1])
                     THEN deduped[Len(deduped)] ELSE deduped[1]
              ELSE deduped[1]

\* the literal marker 'UserInputMetaData:'
user_input_metadata_prefix == <<"U">>

\* a _strip_embedded_json that trims a text without marker as well
strip_embedded_json_trimming(text) ==
  IF find(text, "S") = 0 THEN strip(text) ELSE <<>>

\* _strip_embedded_json, for the one envelope-opening marker the model's
\* texts can hold, '{"status":'
strip_embedded_json(text) ==
  LET at == find(text, "S") IN
  IF at = 0 THEN text
  ELSE
    LET before_json == strip(SubSeq(text, 1, at - 1))
        rest == SubSeq(text, at + 1, Len(text))
        end_idx == brace_scan(rest, 1, 1)
        after_json == IF end_idx > 0 /\ end_idx < Len(rest)
                      THEN strip(SubSeq(rest, end_idx + 1, Len(rest)))
                      ELSE <<>>
    IN  IF before_json # <<>> /\ after_json # <<>>
        THEN before_json \o <<"\n", "\n">> \o after_json
        ELSE IF before_json # <<>> THEN before_json
        ELSE after_json

\* the prefix rule left out: every text is parsed as mixed text
parse_without_prefix(text) ==
  [content |-> strip_embedded_json(text), require_user_input |-> FALSE,
   metadata |-> FALSE, raises |-> FALSE]

\* `"content" in data` with data a number (or true, false, null) is a
\* TypeError, which `except (json.JSONDecodeError, ValueError)` lets through;
\* with data a string it is a substring test, false for the strings of the
\* model.
content_test_raises(data) == data.kind = "number"

\* parse_structured_response: content, require_user_input, metadata (present
\* or None); raises: the call ends with an exception instead
parse_structured_response(text) ==
  LET plain == [content |-> strip_embedded_json(text),
                require_user_input |-> FALSE, metadata |-> FALSE,
                raises |-> FALSE]
      of(data) == [content |-> data.content,
                   require_user_input |-> data.require_user_input,
                   metadata |-> data.has_metadata, raises |-> FALSE]
      whole == json_loads(strip(text))
      prefixed == json_loads(strip(SubSeq(strip(text), 2, Len(strip(text)))))
  IN  IF strip(text) = <<>>
      THEN [content |-> text, require_user_input |-> FALSE, metadata |-> FALSE,
            raises |-> FALSE]
      ELSE IF startswith(strip(text), user_input_metadata_prefix)
                /\ prefixed.kind = "dict" /\ prefixed.has_content
        THEN of(prefixed)
      ELSE IF whole.kind = "dict" /\ whole.has_content THEN of(whole)
      ELSE IF content_test_raises(whole)
        THEN [content |-> <<>>, require_user_input |-> FALSE,
              metadata |-> FALSE, raises |-> TRUE]
      ELSE plain

\* ---------------------------------------------------------------- events

\* The texts the events of the model carry.
T_empty == <<>>
T_a == <<"a">>
T_b == <<"b">>
T_ab == <<"a", "b">>
T_blank == <<" ">>
\* a{"status":"ok","message":"a"}
T_env == <<"a", "S", "k", "M", "q", "a", "q", "}">>
\* UserInputMetaData:{"content":"a", ... "require_user_input":true, ...}
T_form_a == <<"U", "C", "q", "a", "q", "I", "}">>
T_form_b == <<"U", "C", "q", "b", "q", "I", "}">>
\* 5
T_num == <<"5">>

ResultNames == {"partial_result", "complete_result", "final_result"}
PlanNames == {"execution_plan_update", "execution_plan_status_update"}
ToolNames == {"tool_notification_start", "tool_notification_end"}
SpecialNames ==
  ToolNames \cup PlanNames \cup {"execution_plan_streaming"}

\* One event of the stream: what handle_user_input reads of it.
Event(state, tool_status, status_text, artifact_name, artifact_text, done) ==
  [state |-> state, tool_status |-> tool_status, status_text |-> status_text,
   artifact_name |-> artifact_name, artifact_text |-> artifact_text,
   is_task_complete |-> done]

\* state "none": the event has no status; tool_status "none": no
\* metadata.tool_notification; artifact_name "none": no artifact.
\* Events that the handler treats alike are given once.
StatusEvents ==
  { Event("working", "none", tx, "none", <<>>, d) :
      tx \in {T_empty, T_a}, d \in BOOLEAN }
  \cup
  { Event("working", "started", T_a, "none", <<>>, d) : d \in BOOLEAN }

StreamingEvents ==
  { Event("none", "none", <<>>, "streaming_result", tx, d) :
      tx \in {T_empty, T_a, T_blank}, d \in BOOLEAN }
  \cup
  { Event("none", "none", <<>>, "streaming_result", tx, FALSE) :
      tx \in {T_ab, T_env, T_form_a} }
  \cup
  { Event("working", "none", T_num, "streaming_result", <<>>, FALSE) }

ResultEvents ==
  { Event("none", "none", <<>>, "partial_result", tx, d) :
      tx \in {T_empty, T_a}, d \in BOOLEAN }
  \cup
  { Event("none", "none", <<>>, "complete_result", tx, d) :
      tx \in {T_empty, T_b, T_blank, T_form_b}, d \in BOOLEAN }
  \cup
  { Event("none", "none", <<>>, "final_result", tx, d) :
      tx \in {T_empty, T_b}, d \in BOOLEAN }

SpecialEvents ==
  { Event("none", "none", <<>>, nm, T_a, d) :
      nm \in SpecialNames, d \in BOOLEAN }
  \cup
  { Event("none", "none", <<>>, nm, T_empty, d) :
      nm \in {"execution_plan_update", "tool_notification_start"},
      d \in BOOLEAN }

\* a Task object: neither status message nor artifact
OtherEvents == { Event("none", "none", <<>>, "none", <<>>, d) : d \in BOOLEAN }

Events ==
  StatusEvents \cup StreamingEvents \cup ResultEvents \cup SpecialEvents
    \cup OtherEvents

NoEvent == Event("none", "none", <<>>, "none", <<>>, FALSE)

\* ---------------------------------------------------- the event reduction

\* Bounds of the model: events consumed in one round, and follow-up rounds
\* nested in one turn.
MaxEvents == 3
MaxFollowUps == 1

\* the text handle_user_input extracts from an event
event_text(ev) ==
  IF ev.state # "none" THEN ev.status_text
  ELSE IF ev.artifact_name # "none" THEN ev.artifact_text
  ELSE <<>>

\* event.status.state in [TaskState.working]
intermediate_state(ev) == ev.state = "working"

\* a status event without tool-notification metadata and without artifact
plain_status(ev) ==
  ev.state # "none" /\ ev.tool_status = "none" /\ ev.artifact_name = "none"

\* the local variables of handle_user_input at the start of a round
InitRound ==
  [chunk_count |-> 0,
   final_state_text |-> <<>>,
   all_text |-> <<>>,
   partial_result_text |-> <<>>,
   last_event_signature |-> <<>>,
   final_response_text |-> <<>>,
   response_stream_buffer |-> <<>>,
   streaming_markdown |-> <<>>,
   spinner_stopped |-> FALSE,
   live_started |-> FALSE]

\* a loop body that takes the text of an event without artifact for
\* streaming text
Lane_unnamed(ev) ==
  IF ev.artifact_name = "none" /\ ev.tool_status = "none"
       /\ event_text(ev) # <<>>
  THEN "streaming" ELSE "none"

\* The branch of the loop body that handles an event.
Lane(ev) ==
  LET text == event_text(ev)
      name == ev.artifact_name
  IN  IF ev.state # "none" /\ ev.tool_status # "none" THEN "tool_status"
      ELSE IF name = "partial_result" THEN "partial_result"
      ELSE IF name \in {"complete_result", "final_result"} THEN "complete_result"
      ELSE IF name \in PlanNames THEN "execution_plan"
      ELSE IF name = "execution_plan_streaming" THEN "execution_plan_streaming"
      ELSE IF name = "tool_notification_start" /\ text # <<>> THEN "tool_start"
      ELSE IF name = "tool_notification_end" /\ text # <<>> THEN "tool_end"
      ELSE IF text # <<>> /\ name # "none" THEN "streaming"
      ELSE "none"

\* The event reaches one of the places that stop the spinner:
\* `if not spinner_stopped: notify_streaming_started(); await wait_spinner_cleared()`
StopsSpinner(r, ev) ==
  /\ ~r.spinner_stopped
  /\ \/ Lane(ev) \in {"tool_status", "tool_start", "streaming"}
     \/ Lane(ev) = "execution_plan" /\ event_text(ev) # <<>>

\* a merge that always takes the new fragment for the buffer
merge_fragment_replacing(response_stream_buffer, clean_streaming_text) ==
  clean_streaming_text

\* the merge of a new fragment into response_stream_buffer
merge_fragment(response_stream_buffer, clean_streaming_text) ==
  LET signature == strip(clean_streaming_text)
      buf == response_stream_buffer
  IN  IF strip(buf) # <<>> /\ startswith(signature, strip(buf))
      THEN clean_streaming_text
      ELSE IF strip(buf) # <<>> /\ contains(signature, strip(buf))
      THEN clean_streaming_text
      ELSE IF buf # <<>> /\ buf[Len(buf)] \notin Whitespace
                /\ Head(clean_streaming_text) \notin Whitespace
      THEN buf \o <<" ">> \o clean_streaming_text
      ELSE buf \o clean_streaming_text

\* the duplicate test left out: every fragment is merged
is_duplicate_dropped(signature, last_event_signature) == FALSE

\* `if signature == last_event_signature: continue`
is_duplicate(signature, last_event_signature) ==
  signature = last_event_signature

\* a streaming lane that starts the dashboard and leaves spinner_stopped as
\* it was
streaming_lane_spinning(r, ev, clean_streaming_text) ==
  LET signature == strip(clean_streaming_text)
      r1 == [r EXCEPT !.live_started = TRUE]
      buf == merge_fragment(r.response_stream_buffer, clean_streaming_text)
  IN  IF clean_streaming_text = <<>> THEN r1
      ELSE IF is_duplicate(signature, r.last_event_signature) THEN r1
      ELSE [r1 EXCEPT
              !.last_event_signature = signature,
              !.response_stream_buffer = buf,
              !.final_state_text =
                 IF intermediate_state(ev) THEN r.final_state_text ELSE buf,
              !.all_text = buf,
              !.streaming_markdown = buf]

\* a streaming lane that keeps the fragment, not the buffer, for the final
\* text
streaming_lane_fragment(r, ev, clean_streaming_text) ==
  LET signature == strip(clean_streaming_text)
      r1 == [r EXCEPT !.spinner_stopped = TRUE, !.live_started = TRUE]
      buf == merge_fragment(r.response_stream_buffer, clean_streaming_text)
  IN  IF clean_streaming_text = <<>> THEN r1
      ELSE IF is_duplicate(signature, r.last_event_signature) THEN r1
      ELSE [r1 EXCEPT
              !.last_event_signature = signature,
              !.response_stream_buffer = buf,
              !.final_state_text =
                 IF intermediate_state(ev) THEN r.final_state_text
                 ELSE clean_streaming_text,
              !.all_text = buf,
              !.streaming_markdown = buf]

\* the streaming lane, from `if text and artifact_name:` on, once the spinner
\* has been stopped; clean_streaming_text is sanitize_stream_text(text)
streaming_lane(r, ev, clean_streaming_text) ==
  LET signature == strip(clean_streaming_text)
      r1 == [r EXCEPT !.spinner_stopped = TRUE, !.live_started = TRUE]
      buf == merge_fragment(r.response_stream_buffer, clean_streaming_text)
  IN  IF clean_streaming_text = <<>> THEN r1
      ELSE IF is_duplicate(signature, r.last_event_signature) THEN r1
      ELSE [r1 EXCEPT
              !.last_event_signature = signature,
              !.response_stream_buffer = buf,
              !.final_state_text =
                 IF intermediate_state(ev) THEN r.final_state_text ELSE buf,
              !.all_text = buf,
              !.streaming_markdown = buf]

\* the result lanes: partial_result, and complete_result / final_result
partial_result_lane(r, ev, clean_text) ==
  IF event_text(ev) # <<>>
  THEN [r EXCEPT !.partial_result_text = clean_text]
  ELSE r

complete_result_lane(r, ev, clean_text) ==
  IF event_text(ev) # <<>>
       /\ (r.partial_result_text = <<>> \/ ev.artifact_name = "complete_result")
  THEN [r EXCEPT !.partial_result_text = clean_text]
  ELSE r

\* One pass of the loop body over an event, the spinner handshake done;
\* clean_text is sanitize_stream_text(text), which the result lanes and the
\* streaming lane compute.
Reduce(r, ev, clean_text) ==
  LET lane == Lane(ev) IN
  CASE lane = "tool_status" -> [r EXCEPT !.spinner_stopped = TRUE]
    [] lane = "partial_result" -> partial_result_lane(r, ev, clean_text)
    [] lane = "complete_result" -> complete_result_lane(r, ev, clean_text)
    [] lane = "execution_plan" ->
         IF event_text(ev) # <<>>
         THEN [r EXCEPT !.spinner_stopped = TRUE, !.live_started = TRUE]
         ELSE r
    [] lane = "execution_plan_streaming" -> r
    [] lane = "tool_start" -> [r EXCEPT !.spinner_stopped = TRUE]
    [] lane = "tool_end" -> r
    [] lane = "streaming" -> streaming_lane(r, ev, clean_text)
    [] OTHER -> r

\* The pass ends in `continue`, so the is_task_complete test is not reached.
Continues(r, ev, clean_text) ==
  LET lane == Lane(ev) IN
  \/ lane \in {"tool_status", "partial_result", "complete_result",
               "execution_plan", "execution_plan_streaming",
               "tool_start", "tool_end"}
  \/ /\ lane = "streaming"
     /\ \/ clean_text = <<>>
        \/ is_duplicate(strip(clean_text), r.last_event_signature)

\* `if hasattr(event, 'is_task_complete') and event.is_task_complete: break`
Breaks(r, ev, clean_text) == ~Continues(r, ev, clean_text) /\ ev.is_task_complete

\* `final_state_text if final_state_text else all_text`, then the buffer
text_to_render(r) ==
  IF r.final_state_text # <<>> THEN r.final_state_text
  ELSE IF r.all_text # <<>> THEN r.all_text
  ELSE r.response_stream_buffer

\* The final text of the round, resolved after the loop.
resolve_final(r) ==
  LET buf == r.response_stream_buffer
  IN  IF buf # <<>> /\ contains(buf, user_input_metadata_prefix)
      THEN sanitize_stream_text(buf)
      ELSE IF r.partial_result_text # <<>> THEN r.partial_result_text
      ELSE sanitize_stream_text(text_to_render(r))

\* the round after the loop: final text resolved, streaming panel cleared
Finalize(r) ==
  [r EXCEPT !.final_response_text = resolve_final(r),
            !.streaming_markdown = <<>>]

\* ----------------------------------------------------------------- state

VARIABLES
  protocol,               \* which client's handle_user_input the loop calls
  loop_pc,                \* run_chat_loop: "input", "handling", "join_spinner", "crashed";
                          \*   without run_chat_loop: "direct", "returned"
  stop_event,             \* stop_event.is_set()
  spinner_cleared_event,  \* spinner_cleared_event.is_set()
  signals_bound,          \* _stream_start_event, _spinner_cleared_event are not None
  spinner_task,           \* "none", "created", "sleeping", "done", "failed", "cancelled"
  pc,                     \* the await the handler is suspended at
  round,                  \* the locals of the running handle_user_input
  cur,                    \* the event in hand while awaiting wait_spinner_cleared
  frames,                 \* the callers awaiting a follow-up handle_user_input
  live,                   \* the round's Live is started and not stopped
  leaked,                 \* a Live of an earlier round was started and never stopped
  og,                     \* what has been observed of the running round
  tg                      \* what has been observed of the running turn

\* the state of a turn
turn_vars == <<protocol, loop_pc, stop_event, spinner_cleared_event,
               signals_bound, spinner_task, pc, round, cur, frames, live,
               leaked, og, tg>>

\* A call of parse_structured_response on its own.
VARIABLES
  call_text,              \* the argument
  call_result             \* what the call gave, once it has ended

call_vars == <<call_text, call_result>>

\* The outbound messages of a process run.
VARIABLES
  session_context_id,     \* SESSION_CONTEXT_ID; 0 where a2a_client is not loaded
  uuid_calls,             \* uuid4() calls so far: the n-th call gives the id n
  payloads,               \* the message payloads created, in order
  requests                \* the requests sent: request id and index of the payload

payload_vars == <<session_context_id, uuid_calls, payloads, requests>>

\* run_chat_loop at the grain of input lines, the handler taken as one step.
VARIABLES
  repl_pc,                \* "start", "input", "handling", "ended"
  tty,                    \* input() reads through GNU readline (stdin is a terminal)
  history,                \* the readline history of the process
  history_file,           \* what write_history_file has written, if called
  dispatched,             \* the lines handed to handle_user_input, in order
  last_read,              \* what the latest input line led to
  ended_by                \* how the loop ended

repl_vars == <<repl_pc, tty, history, history_file, dispatched, last_read,
               ended_by>>

\* the tool-activity log of a round (tool_seen, tool_entries, tool_markdown)
\* and the tool notifications the round has handled, while they are at
\* most two
VARIABLES tool_seen, tool_entries, tool_markdown, tool_events

tool_vars == <<tool_seen, tool_entries, tool_markdown, tool_events>>

\* the streaming lane on its own: the round before and after the fragment
\* received last
VARIABLES merge

side_vars == <<call_vars, payload_vars, repl_vars, tool_vars, merge>>

\* the variables other than those of one group
not_call_vars == <<turn_vars, payload_vars, repl_vars, tool_vars, merge>>

not_payload_vars == <<turn_vars, call_vars, repl_vars, tool_vars, merge>>

not_repl_vars == <<turn_vars, call_vars, payload_vars, tool_vars, merge>>

not_tool_vars == <<turn_vars, call_vars, payload_vars, repl_vars, merge>>

not_merge_vars == <<turn_vars, call_vars, payload_vars, repl_vars, tool_vars>>

vars == <<turn_vars, side_vars>>

\* the texts a non-streaming response carries
ResponseTexts == {T_empty, T_a, T_form_a, T_num}

OgInit ==
  [renders |-> 0,            \* render_answer calls of the round
   stream_end |-> "open",    \* "open", "exhausted", "complete", "error"
   done_seen |-> FALSE,      \* the event processed last had is_task_complete
   run_len |-> 0,            \* length (capped at 2) of the current run of
   run_text |-> <<>>,        \*   streaming_result events with this sanitized text,
   run_buffer |-> <<>>,      \*   and the buffer after the run's first event
   shape |-> "streaming",    \* stream so far: "streaming"*, then "complete", or "other"
   c_text |-> <<>>,          \* the text of that complete_result
   got_partial |-> FALSE,    \* a partial_result with text has arrived
   complete_texts |-> {},    \* sanitized texts of the complete/final_result arrived
   stream_raised |-> FALSE,  \* iterating the stream raised
   sends |-> 0,              \* non-streaming send_message requests of the round
   buffer_writers |-> {},    \* artifact names ("none": no artifact) of the
                             \*   events that changed the response buffer
   working_texts |-> {},     \* sanitized texts merged into the buffer from
                             \*   events in the working state
   status_texts |-> {},      \* texts of the status messages without tool
                             \*   metadata and without artifact
   other_text |-> FALSE]     \* another event has carried text

NoRender == [called |-> FALSE, stop |-> FALSE, spinning |-> FALSE, live |-> FALSE]

TgInit ==
  [last_render |-> NoRender,    \* the signals at the latest render_answer call
   text_seen |-> FALSE,         \* an event with text has been processed
   dashboard_started |-> FALSE, \* live.start() was called in this turn
   fallback_failed |-> FALSE,   \* a non-streaming send_message raised
   form_cancelled |-> FALSE]    \* render_metadata_form returned no data

\* the spinner coroutine has not finished: it will draw a frame when next
\* scheduled unless stop_event is set
SpinnerPending == spinner_task \in {"created", "sleeping"}

\* the spinner has drawn a frame and sleeps before the next one
SpinnerAnimating == spinner_task = "sleeping"

DashboardActive == live \/ leaked

TurnInit ==
  /\ loop_pc = "input"
  /\ stop_event = FALSE
  /\ spinner_cleared_event = FALSE
  /\ signals_bound = FALSE
  /\ spinner_task = "none"
  /\ pc = "idle"
  /\ round = InitRound
  /\ cur = NoEvent
  /\ frames = <<>>
  /\ live = FALSE
  /\ leaked = FALSE
  /\ og = OgInit
  /\ tg = TgInit

\* no call of a function on its own has ended: what the call returns
\* (content; require_user_input and metadata of a parsed answer), whether
\* it raises, and what render_answer prints (panel, warning)
NoCall == [ended |-> FALSE, raises |-> FALSE, content |-> <<>>,
           require_user_input |-> FALSE, metadata |-> FALSE,
           panel |-> FALSE, warning |-> FALSE]

CallIdle ==
  /\ call_text = <<>>
  /\ call_result = NoCall

PayloadIdle ==
  /\ session_context_id = 0
  /\ uuid_calls = 0
  /\ payloads = <<>>
  /\ requests = <<>>

\* An input line: its word, whether it was typed in upper case, and whether
\* blanks surround it.
Line(word, upper, padded) == [word |-> word, upper |-> upper, padded |-> padded]

\* nothing read yet
NoRead == [line |-> Line("", FALSE, FALSE),
           reads |-> 0,          \* lines read so far
           history_adds |-> 0,   \* history entries the line added
           handler_calls |-> 0,  \* handle_user_input calls it led to
           spinners |-> 0,       \* spinner tasks it started
           loop_ended |-> FALSE] \* the loop ended on it

NoFile == [written |-> FALSE, lines |-> <<>>]

\* no fragment received
NoMerge == [round |-> InitRound, before |-> InitRound, text |-> <<>>,
            merged |-> FALSE, count |-> 0]

MergeIdle == merge = NoMerge

\* the tool log of a round that has handled no notification
ToolIdle ==
  /\ tool_seen = {}
  /\ tool_entries = <<>>
  /\ tool_markdown = <<>>
  /\ tool_events = <<>>

ReplIdle ==
  /\ repl_pc = "start"
  /\ tty = FALSE
  /\ history = <<>>
  /\ history_file = NoFile
  /\ dispatched = <<>>
  /\ last_read = NoRead
  /\ ended_by = "none"

Init ==
  /\ protocol \in {"a2a", "slim"}
  /\ TurnInit
  /\ ToolIdle
  /\ MergeIdle
  /\ CallIdle
  /\ PayloadIdle
  /\ ReplIdle

\* ---------------------------------------------------- the ends of a round

\* what is kept of a round that awaits a follow-up: the place of the await
\* ("stream": inside the streaming try; "fallback": after it) and, where the
\* round can run again (an exception caught by the streaming try), what has
\* been observed of it
Frame(path, o) ==
  IF path = "stream"
  THEN [path |-> path, stream_end |-> o.stream_end, renders |-> o.renders]
  ELSE [path |-> path, stream_end |-> "error", renders |-> 0]

\* the observations of a caller that runs again
Resumed(f) ==
  [OgInit EXCEPT !.stream_end = f.stream_end, !.renders = f.renders,
                 !.sends = 1]

\* what render_answer finds when called
RenderObs(stopv, livev) ==
  [called |-> TRUE, stop |-> stopv, spinning |-> SpinnerPending,
   live |-> livev \/ leaked]

\* a finally that does not await the spinner task: the loop reads the next
\* line while the task may still run
LoopFinally_unjoined ==
  /\ pc' = "idle"
  /\ frames' = <<>>
  /\ cur' = NoEvent
  /\ loop_pc' = "input"
  /\ stop_event' = TRUE
  /\ UNCHANGED <<spinner_task, spinner_cleared_event, signals_bound>>

\* run_chat_loop's finally: stop_event.set(), spinner_task.cancel(),
\* await spinner_task, then the globals are reset
LoopFinally ==
  /\ pc' = "idle"
  /\ frames' = <<>>
  /\ cur' = NoEvent
  /\ IF spinner_task = "done"
     THEN /\ loop_pc' = "input"
          /\ spinner_task' = "none"
          /\ stop_event' = FALSE
          /\ spinner_cleared_event' = FALSE
          /\ signals_bound' = FALSE
     ELSE IF spinner_task = "failed"
     THEN \* await spinner_task re-raises the spinner's exception
          /\ loop_pc' = "crashed"
          /\ spinner_task' = "none"
          /\ stop_event' = FALSE
          /\ spinner_cleared_event' = FALSE
          /\ signals_bound' = FALSE
     ELSE /\ loop_pc' = "join_spinner"
          /\ stop_event' = TRUE
          /\ UNCHANGED <<spinner_task, spinner_cleared_event, signals_bound>>

\* handle_user_input is running: awaited by run_chat_loop, or called on its
\* own (by a script or a test) with no run_chat_loop and no spinner task
HandlerRunning == loop_pc \in {"handling", "direct"}

\* the handler called on its own returns or raises to its caller
DirectReturn ==
  /\ pc' = "idle"
  /\ frames' = <<>>
  /\ cur' = NoEvent
  /\ loop_pc' = "returned"
  /\ UNCHANGED <<spinner_task, stop_event, spinner_cleared_event, signals_bound>>

\* The round returns; every caller awaiting it returns as well.
Return(r, o, t) ==
  /\ round' = r
  /\ og' = o
  /\ tg' = t
  /\ IF loop_pc = "direct" THEN DirectReturn ELSE LoopFinally

\* An exception leaves the round: the nearest caller that awaits the
\* follow-up inside its streaming try catches it and falls back; a caller
\* awaiting in its fallback re-raises.
Raise(r, o, t, stopv) ==
  LET catchers == {i \in 1..Len(frames) : frames[i].path = "stream"} IN
  IF catchers = {}
  THEN Return(r, o, t)
  ELSE LET i == CHOOSE c \in catchers : \A d \in catchers : d <= c IN
       /\ round' = InitRound
       /\ og' = Resumed(frames[i])
       /\ tg' = t
       /\ frames' = SubSeq(frames, 1, i - 1)
       /\ pc' = "fallback"
       /\ cur' = NoEvent
       /\ stop_event' = stopv
       /\ UNCHANGED <<loop_pc, spinner_task, spinner_cleared_event, signals_bound>>

\* `await handle_user_input(...)` for the data of the form
FollowUp(path, r, o, t, stopv) ==
  /\ Len(frames) < MaxFollowUps
  /\ frames' = Append(frames, Frame(path, o))
  /\ round' = r
  /\ og' = o
  /\ tg' = t
  /\ pc' = "connect"
  /\ cur' = NoEvent
  /\ stop_event' = stopv
  /\ UNCHANGED <<loop_pc, spinner_task, spinner_cleared_event, signals_bound>>

\* After the loop: resolve the final text, stop the dashboard, render, and
\* run the form when the answer asks for input.
EndOfStream(r1, o1, t1, stopv) ==
  \E r2 \in {Finalize(r1)} :
  \E parsed \in {parse_structured_response(r2.final_response_text)} :
  \E raised \in {r2.final_response_text # <<>> /\ parsed.raises} :
  \E rendered \in {r2.final_response_text # <<>> /\ ~parsed.raises} :
  \E o2 \in {[o1 EXCEPT !.renders = IF rendered THEN @ + 1 ELSE @,
                         !.sends = IF raised THEN @ + 1 ELSE @]} :
  \E t2 \in {IF rendered
              THEN [t1 EXCEPT !.last_render = RenderObs(stopv, FALSE)]
              ELSE t1} :
    /\ live' = FALSE
    /\ UNCHANGED <<protocol, leaked>>
    /\ IF raised
       THEN \* parse_structured_response raises inside the streaming try:
            \* `except Exception as stream_err`, then the fallback request
            /\ pc' = "fallback"
            /\ round' = r2
            /\ og' = o2
            /\ tg' = t2
            /\ cur' = NoEvent
            /\ stop_event' = stopv
            /\ UNCHANGED <<loop_pc, spinner_task, spinner_cleared_event,
                           signals_bound, frames>>
       ELSE IF rendered /\ parsed.require_user_input /\ parsed.metadata
       THEN \E user_data \in BOOLEAN :
              IF user_data THEN FollowUp("stream", r2, o2, t2, stopv)
              ELSE Return(r2, o2, [t2 EXCEPT !.form_cancelled = TRUE])
       ELSE Return(r2, o2, t2)

\* -------------------------------------------------------------- the loop

\* run_chat_loop reads a line that is no command, makes the two signals,
\* starts the spinner task and awaits handle_user_input.
Dispatch ==
  /\ loop_pc = "input"
  /\ UNCHANGED side_vars
  /\ loop_pc' = "handling"
  /\ stop_event' = FALSE
  /\ spinner_cleared_event' = FALSE
  /\ signals_bound' = TRUE
  /\ spinner_task' = "created"
  /\ pc' = IF protocol = "a2a" THEN "connect" ELSE "slim_send"
  /\ tg' = TgInit
  /\ round' = InitRound
  /\ og' = OgInit
  /\ UNCHANGED <<protocol, cur, frames, live, leaked>>

\* a spinner that sets cleared_event in every iteration
SpinnerTick_early ==
  /\ loop_pc = "handling"
  /\ UNCHANGED side_vars
  /\ SpinnerPending
  /\ spinner_cleared_event' = TRUE
  /\ spinner_task' = IF stop_event THEN "done" ELSE "sleeping"
  /\ UNCHANGED <<protocol, loop_pc, stop_event, signals_bound, pc, round, cur,
                 frames, live, leaked, og, tg>>

\* One iteration of the spinner: on stop_event it writes the arrow, sets
\* cleared_event and ends; otherwise it prints a frame and sleeps.
SpinnerTick ==
  /\ loop_pc = "handling"
  /\ UNCHANGED side_vars
  /\ SpinnerPending
  /\ IF stop_event
     THEN /\ spinner_cleared_event' = TRUE
          /\ spinner_task' = "done"
     ELSE /\ spinner_task' = "sleeping"
          /\ UNCHANGED spinner_cleared_event
  /\ UNCHANGED <<protocol, loop_pc, stop_event, signals_bound, pc, round, cur,
                 frames, live, leaked, og, tg>>

\* print() of a frame raises (stdout closed): the task ends with the error.
SpinnerPrintFails ==
  /\ loop_pc = "handling"
  /\ UNCHANGED side_vars
  /\ SpinnerPending
  /\ ~stop_event
  /\ spinner_task' = "failed"
  /\ UNCHANGED <<protocol, loop_pc, stop_event, spinner_cleared_event,
                 signals_bound, pc, round, cur, frames, live, leaked, og, tg>>

\* The cancelled task gets CancelledError at its await.
SpinnerCancelled ==
  /\ loop_pc = "join_spinner"
  /\ UNCHANGED side_vars
  /\ SpinnerPending
  /\ spinner_task' = "cancelled"
  /\ UNCHANGED <<protocol, loop_pc, stop_event, spinner_cleared_event,
                 signals_bound, pc, round, cur, frames, live, leaked, og, tg>>

\* `await spinner_task` raises CancelledError, which is swallowed; the
\* globals are reset and the loop reads the next line.
JoinSpinner ==
  /\ loop_pc = "join_spinner"
  /\ UNCHANGED side_vars
  /\ spinner_task = "cancelled"
  /\ loop_pc' = "input"
  /\ spinner_task' = "none"
  /\ stop_event' = FALSE
  /\ spinner_cleared_event' = FALSE
  /\ signals_bound' = FALSE
  /\ UNCHANGED <<protocol, pc, round, cur, frames, live, leaked, og, tg>>

\* ------------------------------------------------------- the A2A handler

\* A2AClient.get_client_from_agent_card_url returns; the round's locals are
\* initialised and the stream is opened.
ConnectOk ==
  /\ HandlerRunning
  /\ UNCHANGED side_vars
  /\ pc = "connect"
  /\ pc' = "stream"
  /\ round' = InitRound
  /\ og' = OgInit
  /\ UNCHANGED <<protocol, loop_pc, stop_event, spinner_cleared_event,
                 signals_bound, spinner_task, cur, frames, live, leaked, tg>>

\* ... or raises: the handler prints the error and re-raises.
ConnectFails ==
  /\ HandlerRunning
  /\ UNCHANGED side_vars
  /\ pc = "connect"
  /\ \E o1 \in {[OgInit EXCEPT !.stream_end = "error"]} :
       Raise(InitRound, o1, tg, stop_event)
  /\ UNCHANGED <<protocol, live, leaked>>

\* what the round has observed once ev is processed
Observe(o, r1, ev, clean_text) ==
  LET text == event_text(ev)
      pure == ev.state = "none"
      is_streaming == pure /\ ev.artifact_name = "streaming_result"
      same == is_streaming /\ o.run_len >= 1 /\ o.run_text = clean_text
  IN  [o EXCEPT
         !.done_seen = ev.is_task_complete,
         !.run_len = IF same THEN 2 ELSE IF is_streaming THEN 1 ELSE 0,
         !.run_text = IF is_streaming THEN clean_text ELSE <<>>,
         !.run_buffer = IF same THEN @
                        ELSE IF is_streaming THEN r1.response_stream_buffer
                        ELSE <<>>,
         !.shape = IF o.shape = "streaming" /\ is_streaming THEN "streaming"
                   ELSE IF o.shape = "streaming" /\ pure /\ text # <<>>
                           /\ ev.artifact_name = "complete_result"
                     THEN "complete"
                   ELSE "other",
         !.c_text = IF o.shape = "streaming" /\ pure
                         /\ ev.artifact_name = "complete_result"
                    THEN text ELSE <<>>,
         !.got_partial = @ \/ (ev.artifact_name = "partial_result" /\ text # <<>>),
         !.complete_texts =
            IF ev.artifact_name \in {"complete_result", "final_result"}
                 /\ text # <<>>
            THEN @ \cup {clean_text} ELSE @]

\* the pass over an event has changed the response buffer or one of the
\* texts that follow it
buffer_changed(r0, r1) ==
  \/ r1.response_stream_buffer # r0.response_stream_buffer
  \/ r1.final_state_text # r0.final_state_text
  \/ r1.all_text # r0.all_text
  \/ r1.streaming_markdown # r0.streaming_markdown

\* The loop body from the spinner handshake on, then the next await: the
\* next event, or what follows the loop when the event ends it.
Process(r0, ev, stopv) ==
  \E clean_text \in {sanitize_stream_text(event_text(ev))} :
  \E r1 \in {Reduce(r0, ev, clean_text)} :
  \E o1 \in {[Observe(og, r1, ev, clean_text) EXCEPT
                !.buffer_writers = IF buffer_changed(r0, r1)
                                   THEN @ \cup {ev.artifact_name} ELSE @,
                !.working_texts =
                   IF intermediate_state(ev)
                        /\ r1.response_stream_buffer # r0.response_stream_buffer
                   THEN @ \cup {clean_text} ELSE @,
                !.status_texts =
                   IF plain_status(ev) /\ event_text(ev) # <<>>
                   THEN @ \cup {event_text(ev)} ELSE @,
                !.other_text =
                   @ \/ (~plain_status(ev) /\ event_text(ev) # <<>>)]} :
  \E t1 \in {[tg EXCEPT !.text_seen = @ \/ event_text(ev) # <<>>,
                        !.dashboard_started = @ \/ r1.live_started]} :
    IF Breaks(r0, ev, clean_text)
    THEN \E o2 \in {[o1 EXCEPT !.stream_end = "complete"]} :
           EndOfStream(r1, o2, t1, stopv)
    ELSE /\ pc' = "stream"
         /\ round' = r1
         /\ og' = o1
         /\ tg' = t1
         /\ live' = r1.live_started
         /\ cur' = NoEvent
         /\ stop_event' = stopv
         /\ UNCHANGED <<protocol, loop_pc, spinner_cleared_event,
                        signals_bound, spinner_task, frames, leaked>>

\* a wait_spinner_cleared() that awaits the signal whether or not the
\* global is bound
must_wait_unbound == ~spinner_cleared_event

\* wait_spinner_cleared() has to suspend: the global is bound and not set
must_wait == signals_bound /\ ~spinner_cleared_event

\* The stream yields an event.  Where the lane stops the spinner,
\* notify_streaming_started() sets the stop signal and the handler awaits
\* wait_spinner_cleared().
StreamEvent(ev) ==
  /\ HandlerRunning
  /\ UNCHANGED side_vars
  /\ pc = "stream"
  /\ round.chunk_count < MaxEvents
  /\ \E r0 \in {[round EXCEPT !.chunk_count = @ + 1]} :
     \E stops \in {StopsSpinner(r0, ev)} :
     \E stopv \in {stop_event \/ (stops /\ signals_bound)} :
       IF stops /\ must_wait
       THEN /\ pc' = "wait_cleared"
            /\ cur' = ev
            /\ round' = r0
            /\ stop_event' = stopv
            /\ UNCHANGED <<protocol, loop_pc, spinner_cleared_event,
                           signals_bound, spinner_task, frames, live, leaked,
                           og, tg>>
       ELSE Process(r0, ev, stopv)

\* spinner_cleared_event is set: the handler resumes with the event.
SpinnerClearedResume ==
  /\ HandlerRunning
  /\ UNCHANGED side_vars
  /\ pc = "wait_cleared"
  /\ ~must_wait
  /\ Process(round, cur, stop_event)

\* The stream is exhausted.
StreamEnds ==
  /\ HandlerRunning
  /\ UNCHANGED side_vars
  /\ pc = "stream"
  /\ \E o1 \in {[og EXCEPT !.stream_end = "exhausted"]} :
       EndOfStream(round, o1, tg, stop_event)

\* Iterating the stream raises: `except Exception as stream_err`, then the
\* non-streaming request.  The round's Live, if started, is not stopped.
\* The fallback reads none of the locals of the streaming attempt.
StreamRaises ==
  /\ HandlerRunning
  /\ UNCHANGED side_vars
  /\ pc = "stream"
  /\ pc' = "fallback"
  /\ round' = InitRound
  /\ og' = [OgInit EXCEPT !.stream_end = "error", !.stream_raised = TRUE,
                          !.sends = og.sends + 1]
  /\ leaked' = (leaked \/ live)
  /\ live' = FALSE
  /\ UNCHANGED <<protocol, loop_pc, stop_event, spinner_cleared_event,
                 signals_bound, spinner_task, cur, frames, tg>>

\* client.send_message returns: a success response is rendered, and the form
\* is run when it asks for input; a non-success response is printed.
FallbackResponse(success, text) ==
  /\ HandlerRunning
  /\ UNCHANGED side_vars
  /\ pc = "fallback"
  /\ UNCHANGED <<protocol, live, leaked>>
  /\ IF success
     THEN \E parsed \in {parse_structured_response(text)} :
          \E o2 \in {[og EXCEPT !.renders = @ + 1]} :
          \E t2 \in {[tg EXCEPT !.last_render = RenderObs(stop_event, live)]} :
            IF parsed.raises
            THEN \* before render_answer: the handler prints the error and
                 \* re-raises
                 Raise(round, og, tg, stop_event)
            ELSE IF parsed.require_user_input /\ parsed.metadata
            THEN \E form_data \in BOOLEAN :
                   IF form_data
                   THEN FollowUp("fallback", round, o2, t2, stop_event)
                   ELSE Return(round, o2, [t2 EXCEPT !.form_cancelled = TRUE])
            ELSE Return(round, o2, t2)
     ELSE Return(round, og, tg)

\* client.send_message raises: the handler prints the error and re-raises.
FallbackRaises ==
  /\ HandlerRunning
  /\ UNCHANGED side_vars
  /\ pc = "fallback"
  /\ \E t1 \in {[tg EXCEPT !.fallback_failed = TRUE]} :
       Raise(round, og, t1, stop_event)
  /\ UNCHANGED <<protocol, live, leaked>>

\* ------------------------------------------------------ the SLIM handler

\* _client.send_message returns and the text is rendered, or it raises and
\* the error text is rendered; the handler never stops the spinner.
SlimSend(text) ==
  /\ HandlerRunning
  /\ UNCHANGED side_vars
  /\ pc = "slim_send"
  /\ \E o1 \in {[OgInit EXCEPT !.renders = 1]} :
     \E t1 \in {[tg EXCEPT !.last_render = RenderObs(stop_event, live)]} :
       Return(round, o1, t1)
  /\ UNCHANGED <<protocol, live, leaked>>

Next ==
  \/ Dispatch
  \/ SpinnerTick
  \/ SpinnerPrintFails
  \/ SpinnerCancelled
  \/ JoinSpinner
  \/ ConnectOk
  \/ ConnectFails
  \/ \E ev \in Events : StreamEvent(ev)
  \/ SpinnerClearedResume
  \/ StreamEnds
  \/ StreamRaises
  \/ \E success \in BOOLEAN, text \in ResponseTexts : FallbackResponse(success, text)
  \/ FallbackRaises
  \/ \E text \in ResponseTexts : SlimSend(text)

Spec == Init /\ [][Next]_vars

\* The session loop from its first prompt, or handle_user_input called on
\* its own: the module-level signals are None, as at import.
SessionInit ==
  /\ protocol \in {"a2a", "slim"}
  /\ loop_pc \in {"input", "direct"}
  /\ stop_event = FALSE
  /\ spinner_cleared_event = FALSE
  /\ signals_bound = FALSE
  /\ spinner_task = "none"
  /\ pc = IF loop_pc = "input" THEN "idle"
          ELSE IF protocol = "a2a" THEN "connect" ELSE "slim_send"
  /\ round = InitRound
  /\ cur = NoEvent
  /\ frames = <<>>
  /\ live = FALSE
  /\ leaked = FALSE
  /\ og = OgInit
  /\ tg = TgInit
  /\ ToolIdle
  /\ MergeIdle
  /\ CallIdle
  /\ PayloadIdle
  /\ ReplIdle

SessionSpec == SessionInit /\ [][Next]_vars

\* The scheduling the event loop guarantees to the spinner task: while it
\* has not finished, its next iteration runs (asyncio.sleep(0.1) returns),
\* and a cancellation requested by run_chat_loop is delivered and awaited.
\* What the agent, the network or the terminal does is not guaranteed.
FairSpec ==
  /\ Init /\ [][Next]_vars
  /\ WF_vars(SpinnerTick)
  /\ WF_vars(SpinnerCancelled)
  /\ WF_vars(JoinSpinner)

\* ------------------------------------ parse_structured_response on its own

\* JSON texts of the model's grammar: a number, two strings, and objects
\* without and with a "content" key
JsonBodies ==
  { <<"5">>, <<"k">>, <<"q", "a", "q">>, <<"{", "}">>,
    <<"S", "k", "}">>, <<"S", "k", "M", "q", "a", "q", "}">>,
    <<"C", "q", "a", "q", "}">>, <<"C", "q", "a", "q", "I", "}">> }

\* texts that are no JSON: plain words, an object left open, an object with
\* text around it, `{a}`
NonJsonBodies ==
  { <<>>, <<"a">>, <<"a", "b">>, <<"C", "q", "a", "q">>,
    <<"S", "k", "}", "a">>, <<"a", "S", "k", "}", "b">>,
    <<"{", "a", "}">>, <<"a", "S">> }

Pads == {<<>>, <<" ">>}

\* the arguments of the call: a body, bare or behind 'UserInputMetaData:',
\* with and without blanks around the parts
CallTexts ==
  { lead \o prefix \o sep \o body \o trail :
      lead \in Pads, prefix \in {<<>>, user_input_metadata_prefix},
      sep \in Pads, body \in JsonBodies \cup NonJsonBodies, trail \in Pads }

CallInit ==
  /\ protocol = "a2a"
  /\ TurnInit
  /\ ToolIdle
  /\ MergeIdle
  /\ PayloadIdle
  /\ ReplIdle
  /\ call_text \in CallTexts
  /\ call_result = NoCall

\* parse_structured_response(call_text) runs to its end
ParseCall ==
  /\ ~call_result.ended
  /\ \E parsed \in {parse_structured_response(call_text)} :
       call_result' = [NoCall EXCEPT
                         !.ended = TRUE, !.raises = parsed.raises,
                         !.content = parsed.content,
                         !.require_user_input = parsed.require_user_input,
                         !.metadata = parsed.metadata]
  /\ UNCHANGED <<call_text, not_call_vars>>

CallNext == ParseCall

ParseSpec == CallInit /\ [][CallNext]_vars

\* ------------------------------------------- sanitize_stream_text on its own

\* what stands where a status envelope can stand: nothing, envelopes without
\* and with a message, an object of another kind, an envelope left open, an
\* envelope that holds an object
Envelopes ==
  { <<>>, <<"S", "k", "}">>, <<"S", "k", "M", "q", "a", "q", "}">>,
    <<"S", "k", "M", "q", "a", "b", "q", "}">>, <<"T", "q", "a", "q", "}">>,
    <<"S", "k">>, <<"S", "{", "}", "}">> }

\* the words around the envelopes
Fragments == { <<>>, <<"a">>, <<"b">>, <<"a", "\r", "\n", "b">> }

\* the arguments of the call
SanitizeTexts ==
  { lead \o w1 \o e1 \o w2 \o e2 \o trail :
      lead \in Pads, w1 \in Fragments, e1 \in Envelopes, w2 \in Fragments,
      e2 \in {<<>>, <<"S", "k", "}">>}, trail \in Pads }

SanitizeInit ==
  /\ protocol = "a2a"
  /\ TurnInit
  /\ ToolIdle
  /\ MergeIdle
  /\ PayloadIdle
  /\ ReplIdle
  /\ call_text \in SanitizeTexts
  /\ call_result = NoCall

\* sanitize_stream_text(call_text) returns
SanitizeCall ==
  /\ ~call_result.ended
  /\ call_result' = [NoCall EXCEPT !.ended = TRUE,
                                  !.content = sanitize_stream_text(call_text)]
  /\ UNCHANGED <<call_text, not_call_vars>>

SanitizeNext == SanitizeCall

SanitizeSpec == SanitizeInit /\ [][SanitizeNext]_vars

\* ------------------------------------- format_execution_plan_text on its own

\* The plan texts have symbols of their own:
\*   "[" "]" ","   the brackets and the comma of a list literal
\*   "r1".."r8"    a dict literal, see Item;  "n"  the literal 5
\*   "Up" "Tl"     the words 'Updated' and 'todo list'
\*   "clip" "check" "hour" "dot"   the glyphs of pending / heading,
\*                 completed, in_progress and of any other status
\*   "H" "Hu"      ' **Execution Plan**' and ' **Execution Plan (updated)**'
\*   "-"           a hyphen;  "nd"  '(no description)'

\* Bound of the model: items in a list literal.
MaxItems == 2

\* the dict literals: content, task ("" when the key is absent), status
\* ("" when absent, "number" for a status that is no string)
Item(sym) ==
  CASE sym = "r1" -> [content |-> <<"a">>, task |-> <<>>, status |-> "completed"]
    [] sym = "r2" -> [content |-> <<>>, task |-> <<"b">>, status |-> "in_progress"]
    [] sym = "r3" -> [content |-> <<"c">>, task |-> <<>>, status |-> "pending"]
    [] sym = "r4" -> [content |-> <<"a">>, task |-> <<"b">>, status |-> "blocked"]
    [] sym = "r5" -> [content |-> <<>>, task |-> <<>>, status |-> ""]
    [] sym = "r6" -> [content |-> <<"b">>, task |-> <<>>, status |-> "COMPLETED"]
    [] sym = "r7" -> [content |-> <<"clip", "a">>, task |-> <<>>, status |-> "pending"]
    [] sym = "r8" -> [content |-> <<"a">>, task |-> <<>>, status |-> "number"]

Dicts == {"r1", "r2", "r3", "r4", "r5", "r6", "r7", "r8"}

\* the literals a list of the model holds
PlanItems == Dicts \cup {"n"}

\* a list literal: the items between brackets, commas between the items
RECURSIVE comma_join(_)
comma_join(items) ==
  IF Len(items) = 0 THEN <<>>
  ELSE IF Len(items) = 1 THEN <<items[1]>>
  ELSE <<items[1], ",">> \o comma_join(Tail(items))

list_literal(items) == <<"[">> \o comma_join(items) \o <<"]">>

ItemSeqs == UNION { [1..k -> PlanItems] : k \in 0..MaxItems }

\* what the plan artifact holds around and instead of a list
PlanBodies ==
  { list_literal(items) : items \in ItemSeqs }
  \cup { <<>>, <<"a">>, <<"]", "[">>, <<"[", "a", "]">>, <<"[", "r1", "r2", "]">>,
         <<"[", "r1", "]", " ", "[", "r2", "]">>, <<"[", "r1">>,
         <<"check", " ", "a">>, <<"-", " ", "check", " ", "a">> }

PlanTexts ==
  { pre \o body \o post :
      pre \in {<<>>, <<"a", " ">>, <<"Up", " ", "Tl", " ">>},
      body \in PlanBodies,
      post \in {<<>>, <<" ", "b">>, <<"\n">>} }

\* raw_text.rfind(sym), 0 when absent
rfind(t, sym) ==
  IF \E i \in 1..Len(t) : t[i] = sym
  THEN CHOOSE i \in 1..Len(t) : t[i] = sym /\ \A j \in (i + 1)..Len(t) : t[j] # sym
  ELSE 0

\* ast.literal_eval(list_segment): the items of the list, or an exception
literal_eval(segment) ==
  LET n == Len(segment)
      inner == SubSeq(segment, 2, n - 1)
      m == Len(inner)
      bad == [ok |-> FALSE, items |-> <<>>]
  IN  IF n < 2 \/ segment[1] # "[" \/ segment[n] # "]" THEN bad
      ELSE IF m = 0 THEN [ok |-> TRUE, items |-> <<>>]
      ELSE IF /\ m % 2 = 1
              /\ \A i \in 1..m : IF i % 2 = 1 THEN inner[i] \in PlanItems
                                               ELSE inner[i] = ","
        THEN [ok |-> TRUE, items |-> [i \in 1..((m + 1) \div 2) |-> inner[2 * i - 1]]]
      ELSE bad

\* str.lower() of a status
status_lower(status) == IF status = "COMPLETED" THEN "completed" ELSE status

\* status_emoji.get(status, default)
status_emoji(status) ==
  CASE status = "in_progress" -> "hour"
    [] status = "completed" -> "check"
    [] status = "pending" -> "clip"
    [] OTHER -> "dot"

\* item.get('content') or item.get('task') or "(no description)"
item_content(item) ==
  IF item.content # <<>> THEN item.content
  ELSE IF item.task # <<>> THEN item.task
  ELSE <<"nd">>

\* the loop over todos: the lines after the heading and the empty line;
\* raises when a status is no string (AttributeError at .lower())
RECURSIVE plan_lines(_)
plan_lines(todos) ==
  IF todos = <<>> THEN [raises |-> FALSE, lines |-> <<>>]
  ELSE IF Head(todos) \notin Dicts THEN plan_lines(Tail(todos))
  ELSE IF Item(Head(todos)).status = "number"
    THEN [raises |-> TRUE, lines |-> <<>>]
  ELSE LET item == Item(Head(todos))
           line == <<"-", " ", status_emoji(status_lower(item.status)), " ">>
                     \o item_content(item)
           rest == plan_lines(Tail(todos))
       IN  [raises |-> rest.raises, lines |-> <<line>> \o rest.lines]

\* "\n".join(lines)
RECURSIVE newline_join(_)
newline_join(lines) ==
  IF lines = <<>> THEN <<>>
  ELSE IF Len(lines) = 1 THEN lines[1]
  ELSE lines[1] \o <<"\n">> \o newline_join(Tail(lines))

\* '📋' in t: the glyph stands in the text or inside one of its dict
\* literals
holds_clip(t) ==
  \/ contains(t, <<"clip">>)
  \/ \E i \in 1..Len(t) :
       /\ t[i] \in Dicts
       /\ contains(Item(t[i]).content \o Item(t[i]).task, <<"clip">>)

\* format_execution_plan_text: the text returned, or raises
format_execution_plan_text(raw_text) ==
  LET same == [raises |-> FALSE, text |-> raw_text]
      stripped == strip(raw_text)
      heading == IF contains(raw_text, <<"Up">>) /\ contains(raw_text, <<"Tl">>)
                 THEN <<"clip", "Hu">> ELSE <<"clip", "H">>
      list_start == find(raw_text, "[")
      list_end == rfind(raw_text, "]")
  IN  IF raw_text = <<>> THEN same
      ELSE IF \/ startswith(stripped, <<"-", " ", "check">>)
              \/ startswith(stripped, <<"check">>)
              \/ holds_clip(stripped)
        THEN same
      ELSE IF list_start = 0 \/ list_end = 0 \/ list_end <= list_start THEN same
      ELSE
        LET todos == literal_eval(SubSeq(raw_text, list_start, list_end)) IN
        IF ~todos.ok THEN same
        ELSE LET body == plan_lines(todos.items) IN
             IF body.raises THEN [raises |-> TRUE, text |-> <<>>]
             ELSE IF body.lines = <<>> THEN same
             ELSE [raises |-> FALSE,
                   text |-> newline_join(<<heading, <<>>>> \o body.lines)]

PlanInit ==
  /\ protocol = "a2a"
  /\ TurnInit
  /\ ToolIdle
  /\ MergeIdle
  /\ PayloadIdle
  /\ ReplIdle
  /\ call_text \in PlanTexts
  /\ call_result = NoCall

\* format_execution_plan_text(call_text) returns or raises
PlanCall ==
  /\ ~call_result.ended
  /\ \E formatted \in {format_execution_plan_text(call_text)} :
       call_result' = [NoCall EXCEPT !.ended = TRUE,
                                    !.raises = formatted.raises,
                                    !.content = formatted.text]
  /\ UNCHANGED <<call_text, not_call_vars>>

PlanNext == PlanCall

PlanSpec == PlanInit /\ [][PlanNext]_vars

\* ------------------------------------ summarize_tool_notification on its own

\* In the notification texts every symbol is one character, but "R", the
\* literal 'response=', and "..." the one-character ellipsis glyph.

max_len == 160

\* a word of n letters
Run(n) == [i \in 1..n |-> "x"]

\* the characters str.splitlines() breaks a text at
LineBreaks == {"\n", "\r"}

\* text.split("response=", 1)[0]
before_response(t) ==
  LET at == find(t, "R") IN IF at = 0 THEN t ELSE SubSeq(t, 1, at - 1)

\* text.splitlines()[0] of a text that is not empty
first_line(t) ==
  IF \E i \in 1..Len(t) : t[i] \in LineBreaks
  THEN LET at == CHOOSE i \in 1..Len(t) :
                   t[i] \in LineBreaks /\ \A j \in 1..(i - 1) : t[j] \notin LineBreaks
       IN  SubSeq(t, 1, at - 1)
  ELSE t

\* a summarize_tool_notification without the cap on the length
summarize_uncapped(raw_text) ==
  LET text == before_response(strip(raw_text))
  IN  IF strip(text) = <<>> THEN <<>> ELSE strip(first_line(strip(text)))

summarize_tool_notification(raw_text) ==
  IF raw_text = <<>> THEN <<>>
  ELSE
    LET text0 == strip(raw_text)
        text1 == IF contains(text0, <<"R">>) THEN strip(before_response(text0))
                 ELSE text0
    IN  IF text1 = <<>> THEN <<>>
        ELSE LET text == strip(first_line(text1))
             IN  IF len(text) > max_len
                 THEN rstrip(SubSeq(text, 1, max_len)) \o <<"...">>
                 ELSE text

\* the notifications: a first part, a separation, a second part
SummaryHeads ==
  { <<>>, <<"a">>, <<"a", "\t", "b">>, <<"a", " ", "R", "b">>,
    Run(max_len - 1), Run(max_len), Run(max_len + 1), Run(max_len + 5),
    Run(max_len - 1) \o <<" ", "b", "c">>, Run(max_len - 2) \o <<" ", " ", "c">>,
    Run(max_len - 1) \o <<"R", "b">>, Run(max_len + 1) \o <<"R">> }

SummarySeps == { <<>>, <<" ">>, <<"\n">>, <<"\r", "\n">>, <<" ", "\n", " ">> }

SummaryTails == { <<>>, <<"b">>, <<"R", "b">>, <<"b", "R", "\n", "c">> }

SummaryTexts ==
  { lead \o head \o sep \o tail \o trail :
      lead \in {<<>>, <<" ">>, <<"\n">>}, head \in SummaryHeads,
      sep \in SummarySeps, tail \in SummaryTails, trail \in Pads }

SummaryInit ==
  /\ protocol = "a2a"
  /\ TurnInit
  /\ ToolIdle
  /\ MergeIdle
  /\ PayloadIdle
  /\ ReplIdle
  /\ call_text \in SummaryTexts
  /\ call_result = NoCall

\* summarize_tool_notification(call_text) returns
SummaryCall ==
  /\ ~call_result.ended
  /\ call_result' =
       [NoCall EXCEPT !.ended = TRUE,
                      !.content = summarize_tool_notification(call_text)]
  /\ UNCHANGED <<call_text, not_call_vars>>

SummaryNext == SummaryCall

SummarySpec == SummaryInit /\ [][SummaryNext]_vars

\* ------------------------------------------------ the tool-activity log

\* The notification texts have, next to the characters and "R", the symbols
\*   "hour" "check" "cross"   the icons of a started, completed, failed tool
\*   "Cg"   'Calling'         "completed" "failed"   the status words
\*   "t"    the tool name     "-"   a hyphen

\* Bound of the model: entries of the tool log in one round.
MaxToolEntries == 9

\* Bound of the model: the entries up to which the notifications vary in
\* route and text.
MaxVaried == 2

\* the routes of a tool notification: the two artifacts, and a status event
\* with metadata.tool_notification and a status
ToolRoutes ==
  {"tool_notification_start", "tool_notification_end",
   "started", "completed", "failed"}

\* the routes taken when the log has n entries: all of them at first, the
\* artifacts afterwards
ToolRoutesAt(n) ==
  IF n < MaxVaried THEN ToolRoutes
  ELSE {"tool_notification_start", "tool_notification_end"}

\* the texts a notification can carry when the log has n entries: a text not
\* seen before; the first text again with a response attached; and, at
\* first, no text and a text that is all response
ToolTexts(n) ==
  { Run(n + 1), Run(1) \o <<" ", "R", "5">> }
    \cup (IF n < MaxVaried THEN { <<>>, <<"R", "5">> } ELSE {})

\* the text the log is given: summarize_tool_notification(text), or for a
\* status event without one `Calling <tool>` / `<tool> <status>`
notification_text(route, text) ==
  LET summary == summarize_tool_notification(text) IN
  IF route \in {"tool_notification_start", "tool_notification_end"}
  THEN IF text = <<>> THEN <<>> ELSE summary
  ELSE IF summary # <<>> THEN summary
  ELSE IF route = "started" THEN <<"Cg", " ", "t">>
  ELSE <<"t", " ", route>>

tool_icon(route) ==
  CASE route \in {"tool_notification_start", "started"} -> "hour"
    [] route \in {"tool_notification_end", "completed"} -> "check"
    [] route = "failed" -> "cross"

\* a panel that shows the whole log
recent_all(entries) == entries

\* tool_entries[-8:]
recent(entries) ==
  IF Len(entries) <= 8 THEN entries
  ELSE SubSeq(entries, Len(entries) - 7, Len(entries))

\* "\n".join(f"- {line}" for line in recent), as the sequence of its lines
tool_lines(entries) ==
  [i \in 1..Len(recent(entries)) |-> <<"-", " ">> \o recent(entries)[i]]

ToolInit ==
  /\ protocol = "a2a"
  /\ TurnInit
  /\ CallIdle
  /\ PayloadIdle
  /\ ReplIdle
  /\ tool_seen = {}
  /\ tool_entries = <<>>
  /\ tool_markdown = <<>>
  /\ tool_events = <<>>
  /\ MergeIdle

\* One pass of the loop body over a tool notification, as far as the log:
\* a text that is not empty and not in tool_seen is added to tool_seen and,
\* behind its icon, to tool_entries; tool_markdown is rebuilt.
ToolNotification(route, text) ==
  /\ Len(tool_entries) < MaxToolEntries
  /\ \E nt \in {notification_text(route, text)} :
       /\ tool_events' =
            IF Len(tool_events) < 2
            THEN Append(tool_events, [route |-> route, text |-> nt])
            ELSE <<[route |-> "more", text |-> <<>>]>>
       /\ IF nt # <<>> /\ nt \notin tool_seen
          THEN /\ tool_seen' = tool_seen \cup {nt}
               /\ \E entries \in {Append(tool_entries, <<tool_icon(route), " ">> \o nt)} :
                    /\ tool_entries' = entries
                    /\ tool_markdown' = tool_lines(entries)
          ELSE UNCHANGED <<tool_seen, tool_entries, tool_markdown>>
  /\ UNCHANGED not_tool_vars

ToolNext ==
  \E route \in ToolRoutesAt(Len(tool_entries)) :
  \E text \in ToolTexts(Len(tool_entries)) :
    ToolNotification(route, text)

ToolSpec == ToolInit /\ [][ToolNext]_vars

\* ------------------------------------------------ render_answer on its own

\* the symbols whose first character is an opening brace
OpensBrace == {"{", "S", "C", "T"}

\* re.match(r"^b?[\"']?\{.*\}['\"]?$", answer): an optional b, an optional
\* quote, an opening brace, characters other than a line feed, a closing
\* brace, an optional quote, the end
raw_output_match(answer) ==
  LET n == Len(answer)
      after_b == IF n >= 1 /\ answer[1] = "b" THEN 2 ELSE 1
      open == IF after_b <= n /\ answer[after_b] = "q" THEN after_b + 1
              ELSE after_b
      close == IF n >= 1 /\ answer[n] = "q" THEN n - 1 ELSE n
  IN  /\ open <= n
      /\ answer[open] \in OpensBrace
      /\ close > open
      /\ answer[close] = "}"
      /\ \A i \in open..close : answer[i] # "\n"

\* render_answer: the warning or the answer panel
render_answer(answer) ==
  IF raw_output_match(strip(answer))
  THEN [panel |-> FALSE, warning |-> TRUE, text |-> <<>>]
  ELSE [panel |-> TRUE, warning |-> FALSE, text |-> strip(answer)]

\* the answers: something that opens, something between, something that
\* closes, with and without text before and after
AnswerTexts ==
  { lead \o pre \o open \o mid \o close \o post \o trail :
      lead \in Pads,
      pre \in {<<>>, <<"b">>, <<"q">>, <<"a", " ">>},
      open \in {<<>>, <<"{">>, <<"S", "k">>},
      mid \in {<<>>, <<"a">>, <<"\n", "a", "\n">>, <<"a", "\r", "b">>},
      close \in {<<>>, <<"}">>},
      post \in {<<>>, <<"q">>, <<" ", "a">>},
      trail \in {<<>>, <<"\n">>} }

RenderInit ==
  /\ protocol = "a2a"
  /\ TurnInit
  /\ ToolIdle
  /\ MergeIdle
  /\ PayloadIdle
  /\ ReplIdle
  /\ call_text \in AnswerTexts
  /\ call_result = NoCall

\* render_answer(call_text) returns
RenderCall ==
  /\ ~call_result.ended
  /\ \E shown \in {render_answer(call_text)} :
       call_result' = [NoCall EXCEPT !.ended = TRUE, !.content = shown.text,
                                    !.panel = shown.panel,
                                    !.warning = shown.warning]
  /\ UNCHANGED <<call_text, not_call_vars>>

RenderNext == RenderCall

RenderSpec == RenderInit /\ [][RenderNext]_vars

\* ---------------------------------------------- the streaming lane on its own

\* Bound of the model: fragments received in one round.
MaxFragments == 3

\* the texts of the streaming_result artifacts: words, with whitespace
\* before or after them
FragmentTexts ==
  { <<"a">>, <<"b">>, <<"c">>, <<"a", "b">>, <<" ", "b">>, <<"\n", "b">>,
    <<"\t", "b">>, <<"b", " ">>, <<"b", " ", "a">> }

MergeInit ==
  /\ protocol = "a2a"
  /\ TurnInit
  /\ ToolIdle
  /\ CallIdle
  /\ PayloadIdle
  /\ ReplIdle
  /\ merge = NoMerge

\* A streaming_result artifact with this text passes the streaming lane:
\* sanitized, dropped when empty or a duplicate, merged otherwise.
StreamFragment(text) ==
  /\ merge.count < MaxFragments
  /\ \E ev \in {Event("none", "none", <<>>, "streaming_result", text, FALSE)} :
     \E clean_streaming_text \in {sanitize_stream_text(text)} :
       merge' =
         [round |-> streaming_lane(merge.round, ev, clean_streaming_text),
          before |-> merge.round,
          text |-> text,
          merged |-> /\ clean_streaming_text # <<>>
                     /\ ~is_duplicate(strip(clean_streaming_text),
                                       merge.round.last_event_signature),
          count |-> merge.count + 1]
  /\ UNCHANGED not_merge_vars

MergeNext == \E text \in FragmentTexts : StreamFragment(text)

MergeSpec == MergeInit /\ [][MergeNext]_vars

\* ------------------------------------------------- the outbound messages

\* Bound of the model: message payloads created in one process run.
MaxPayloads == 3

\* the user inputs the payloads carry
PayloadTexts == {T_a, T_b, T_ab}

\* uuid4(): the id of the call that n calls precede.  Ids are positive, and
\* a call is taken to give an id that no earlier call gave.
uuid4(n) == n + 1

\* a2a_client is imported (SESSION_CONTEXT_ID = uuid4().hex) by the A2A
\* client only; slim_client does not import it.
PayloadInit ==
  /\ protocol \in {"a2a", "slim"}
  /\ TurnInit
  /\ ToolIdle
  /\ MergeIdle
  /\ CallIdle
  /\ ReplIdle
  /\ session_context_id = IF protocol = "a2a" THEN uuid4(0) ELSE 0
  /\ uuid_calls = IF protocol = "a2a" THEN 1 ELSE 0
  /\ payloads = <<>>
  /\ requests = <<>>

\* create_send_message_payload(text)
create_send_message_payload(text, n) ==
  [text |-> text, messageId |-> uuid4(n), contextId |-> session_context_id]

\* A2A handle_user_input: the payload of the round, then the streaming
\* request that carries it.
CreatePayload(text) ==
  /\ protocol = "a2a"
  /\ Len(payloads) < MaxPayloads
  /\ payloads' = Append(payloads, create_send_message_payload(text, uuid_calls))
  /\ requests' = Append(requests, [id |-> uuid4(uuid_calls + 1),
                                   kind |-> "streaming",
                                   payload |-> Len(payloads) + 1])
  /\ uuid_calls' = uuid_calls + 2
  /\ UNCHANGED <<session_context_id, not_payload_vars>>

\* A2A handle_user_input: the fallback request, with the payload of the
\* round
FallbackRequest ==
  /\ protocol = "a2a"
  /\ payloads # <<>>
  /\ requests[Len(requests)].kind = "streaming"
  /\ requests' = Append(requests, [id |-> uuid4(uuid_calls),
                                   kind |-> "fallback",
                                   payload |-> Len(payloads)])
  /\ uuid_calls' = uuid_calls + 1
  /\ UNCHANGED <<session_context_id, payloads, not_payload_vars>>

\* SLIM handle_user_input: msg_kwargs has messageId, role and parts, and no
\* contextId (0)
SlimMessage(text) ==
  /\ protocol = "slim"
  /\ Len(payloads) < MaxPayloads
  /\ payloads' = Append(payloads, [text |-> text,
                                   messageId |-> uuid4(uuid_calls),
                                   contextId |-> 0])
  /\ requests' = Append(requests, [id |-> uuid4(uuid_calls + 1),
                                   kind |-> "slim",
                                   payload |-> Len(payloads) + 1])
  /\ uuid_calls' = uuid_calls + 2
  /\ UNCHANGED <<session_context_id, not_payload_vars>>

PayloadNext ==
  \/ \E text \in PayloadTexts : CreatePayload(text)
  \/ FallbackRequest
  \/ \E text \in PayloadTexts : SlimMessage(text)

PayloadSpec == PayloadInit /\ [][PayloadNext]_vars

\* ------------------------------------------------ the loop, line by line

\* Bound of the model: input lines read in one session.
MaxLines == 3

Words == {"exit", "quit", "clear", "history", "", "hello"}

\* the lines the user types
Lines ==
  { Line(w, FALSE, FALSE) : w \in Words }
  \cup { Line("exit", TRUE, FALSE), Line("history", TRUE, FALSE) }
  \cup { Line("", FALSE, TRUE), Line("hello", FALSE, TRUE),
         Line("clear", FALSE, TRUE) }

\* str.strip() and str.lower() of a line
strip_line(l) == [l EXCEPT !.padded = FALSE]

lower_line(l) == [l EXCEPT !.upper = FALSE]

\* the history entries left by earlier sessions
StoredHistories == {<<>>, <<Line("hello", FALSE, FALSE)>>}

\* the read of the history file left out of add_history: the line is lost
add_history_dropped(h, l) == h

\* readline.add_history(line)
add_history(h, l) == Append(h, l)

\* input(): with readline imported and stdin a terminal, GNU readline adds
\* each non-empty line it reads to the history, unless it repeats the
\* latest entry
input_history(h, l) ==
  IF tty /\ l # Line("", FALSE, FALSE) /\ (h = <<>> \/ h[Len(h)] # l)
  THEN Append(h, l) ELSE h

\* readline.write_history_file(history_file)
write_history_file(h) == [written |-> TRUE, lines |-> h]

ReplInit ==
  /\ protocol = "a2a"
  /\ TurnInit
  /\ ToolIdle
  /\ MergeIdle
  /\ CallIdle
  /\ PayloadIdle
  /\ repl_pc = "start"
  /\ tty \in BOOLEAN
  /\ history = <<>>
  /\ history_file = NoFile
  /\ dispatched = <<>>
  /\ last_read = NoRead
  /\ ended_by = "none"

\* run_chat_loop starts: the welcome message, then read_history_file
LoadHistory ==
  /\ repl_pc = "start"
  /\ repl_pc' = "input"
  /\ history' \in StoredHistories
  /\ UNCHANGED <<tty, history_file, dispatched, last_read, ended_by,
                 not_repl_vars>>

\* One pass of `while True` up to the await of the handler: read a line,
\* run a command or hand the line to handle_user_input.  On exit / quit the
\* loop breaks and the outer finally writes the history file.
ReadLine(line) ==
  /\ repl_pc = "input"
  /\ last_read.reads < MaxLines
  /\ \E h1 \in {input_history(history, line)} :
     \E user_input \in {strip_line(line)} :
     \E cmd \in {lower_line(user_input).word} :
     \E h2 \in {IF cmd \in {"exit", "quit", "clear", "history", ""}
                 THEN h1 ELSE add_history(h1, user_input)} :
       /\ history' = h2
       /\ last_read' =
            [line |-> line,
             reads |-> last_read.reads + 1,
             history_adds |-> Len(h2) - Len(history),
             handler_calls |->
               IF cmd \in {"exit", "quit", "clear", "history", ""} THEN 0 ELSE 1,
             spinners |->
               IF cmd \in {"exit", "quit", "clear", "history", ""} THEN 0 ELSE 1,
             loop_ended |-> cmd \in {"exit", "quit"}]
       /\ IF cmd \in {"exit", "quit"}
          THEN /\ repl_pc' = "ended"
               /\ ended_by' = "exit"
               /\ history_file' = write_history_file(h2)
               /\ UNCHANGED dispatched
          ELSE IF cmd \in {"clear", "history", ""}
          THEN UNCHANGED <<repl_pc, ended_by, history_file, dispatched>>
          ELSE /\ repl_pc' = "handling"
               /\ dispatched' = Append(dispatched, user_input)
               /\ UNCHANGED <<ended_by, history_file>>
  /\ UNCHANGED <<tty, not_repl_vars>>

\* handle_user_input returns or raises an Exception (printed); the finally
\* stops, cancels and awaits the spinner.  A spinner task that ended with an
\* exception re-raises it at `await spinner_task`: it leaves the loop through
\* the outer finally.
HandlerEnds(raises, spinner_failed) ==
  /\ repl_pc = "handling"
  /\ IF spinner_failed
     THEN /\ repl_pc' = "ended"
          /\ ended_by' = "error"
          /\ history_file' = write_history_file(history)
     ELSE /\ repl_pc' = "input"
          /\ UNCHANGED <<ended_by, history_file>>
  /\ UNCHANGED <<tty, history, dispatched, last_read, not_repl_vars>>

\* KeyboardInterrupt or EOFError at input(), KeyboardInterrupt while the
\* handler runs: `except (KeyboardInterrupt, EOFError)` breaks the loop.
Interrupted ==
  /\ repl_pc \in {"input", "handling"}
  /\ repl_pc' = "ended"
  /\ ended_by' = "interrupt"
  /\ history_file' = write_history_file(history)
  /\ UNCHANGED <<tty, history, dispatched, last_read, not_repl_vars>>

ReplNext ==
  \/ LoadHistory
  \/ \E line \in Lines : ReadLine(line)
  \/ \E raises, spinner_failed \in BOOLEAN : HandlerEnds(raises, spinner_failed)
  \/ Interrupted

LoopSpec == ReplInit /\ [][ReplNext]_vars

\* ---------------------------------------------------------------- claims

\* a round whose event stream ended, by exhaustion or by the completion flag
StreamEnded == og.stream_end \in {"exhausted", "complete"}

\* C1: at most one of {spinner animating, dashboard started and not stopped}
\* holds in any state; the dashboard is started only with the stop signal set
\* and the spinner-cleared confirmation set; and once the dashboard has been
\* started in a turn the spinner is not active again in that turn.
C1_SpinnerDashboardExclusive ==
  /\ ~(SpinnerAnimating /\ DashboardActive)
  /\ (live => stop_event /\ spinner_cleared_event)
  /\ (tg.dashboard_started => ~SpinnerPending)

\* C2: a consumer that has set the stop signal and awaits the spinner-cleared
\* signal always eventually gets to resume with the event: the wait has
\* ended, or the signal it awaits is set and the event loop runs it again.
C2_WaitEventuallyResumes ==
  (pc = "wait_cleared") ~> (pc # "wait_cleared" \/ spinner_cleared_event)

\* C3: during a turn, once an event carrying non-empty text has been
\* processed, whatever its kind, the stop-spinner signal is set.
C3_FirstTextStopsSpinner ==
  (loop_pc = "handling" /\ tg.text_seen) => stop_event

\* C4: whenever render_answer has been called in the turn, the stop-spinner
\* signal was set and the spinner had stopped drawing at the call.
C4_NoRenderWhileSpinning ==
  tg.last_render.called => (tg.last_render.stop /\ ~tg.last_render.spinning)

\* C5: whenever render_answer has been called in the turn, no live dashboard
\* was active at the call.
C5_NoRenderWhileDashboard ==
  tg.last_render.called => ~tg.last_render.live

\* C6: a round whose event stream ended has called render_answer exactly
\* once.
C6_ExactlyOneRender ==
  StreamEnded => og.renders = 1

\* C7: within a run of two or more consecutive streaming_result events with
\* identical sanitized text, response_stream_buffer equals what it was after
\* the first event of the run.
C7_DuplicateRunKeepsBuffer ==
  og.run_len >= 2 => round.response_stream_buffer = og.run_buffer

\* C7 witness: a run of two identical streaming_result fragments with text has
\* been processed on top of a buffer that already held another fragment.
C7_Witness ==
  /\ pc = "stream"
  /\ og.run_len >= 2
  /\ og.run_text # <<>>
  /\ strip(round.response_stream_buffer) # og.run_text

\* C8: when the stream was streaming_result events and then a complete_result
\* with text (non-empty also once sanitized), the resolved final text is the
\* sanitized complete_result text, unless the streaming buffer contains the
\* marker and the complete_result text does not: then it is the sanitized
\* buffer.
C8_CompleteResultWins ==
  (StreamEnded /\ og.shape = "complete"
     /\ sanitize_stream_text(og.c_text) # <<>>) =>
     IF contains(round.response_stream_buffer, user_input_metadata_prefix)
          /\ ~contains(og.c_text, user_input_metadata_prefix)
     THEN round.final_response_text
            = sanitize_stream_text(round.response_stream_buffer)
     ELSE round.final_response_text = sanitize_stream_text(og.c_text)

\* C9: at the end of a stream that carried both a partial_result and a
\* complete_result or final_result, each with text, the stored override is
\* the text of a complete_result / final_result.
C9_CompleteOutranksPartial ==
  (StreamEnded /\ og.got_partial /\ og.complete_texts # {}) =>
     round.partial_result_text \in og.complete_texts

\* C10: having processed an event with is_task_complete, the handler is not
\* waiting for a further event of the stream.
C10_CompleteFlagEndsLoop ==
  pc = "stream" => ~og.done_seen

\* C11: a turn whose stream raised has issued exactly one fallback request,
\* and a turn whose fallback request raised as well leaves the session loop
\* running.
C11_FallbackOnceThenLoopContinues ==
  /\ og.stream_raised => og.sends = 1
  /\ tg.fallback_failed => loop_pc # "crashed"

\* C12: whenever the loop is about to read a line, no handler is running,
\* no caller awaits a follow-up and no spinner task exists.
C12_StrictlySequential ==
  loop_pc = "input" =>
    /\ pc = "idle"
    /\ frames = <<>>
    /\ spinner_task = "none"

\* C12 witness: the loop is back at the prompt after a turn that rendered
\* an answer.
C12_Witness ==
  /\ loop_pc = "input"
  /\ tg.last_render.called

\* C13: the end of the spinner task never takes the session loop down.
C13_SpinnerEndNeverPropagates ==
  loop_pc # "crashed"

\* C14: every message payload created in the process run carries a
\* contextId, the session id generated at startup, and no two payloads have
\* the same messageId.
C14_SameContextDistinctIds ==
  /\ \A i \in 1..Len(payloads) :
       /\ payloads[i].contextId # 0
       /\ payloads[i].contextId = session_context_id
  /\ \A i, j \in 1..Len(payloads) :
       i # j => payloads[i].messageId # payloads[j].messageId

\* C15: a turn whose form was cancelled has ended: no handler runs, no
\* caller awaits a follow-up, and the session loop is still running.
C15_FormCancelEndsTurn ==
  tg.form_cancelled =>
    /\ pc = "idle"
    /\ frames = <<>>
    /\ loop_pc # "crashed"

\* C16: the nesting of follow-up rounds stops below the bound of the model,
\* that is, something in the handler stops it before the model does.
C16_FollowUpsCapped ==
  Len(frames) < MaxFollowUps

\* C17: a line that is exit or quit in any case ends the loop; clear,
\* history and the empty line call no handler, start no spinner and add no
\* history entry; any other line is handed to the handler exactly once.
C17_CommandsAndDispatch ==
  last_read.reads > 0 =>
    LET word == last_read.line.word IN
      /\ word \in {"exit", "quit"} => last_read.loop_ended
      /\ word \in {"clear", "history", ""} =>
            /\ last_read.handler_calls = 0
            /\ last_read.spinners = 0
            /\ last_read.history_adds = 0
      /\ word \notin {"exit", "quit", "clear", "history", ""} =>
            last_read.handler_calls = 1

C19_ParseNeverRaises ==
  call_result.ended => ~call_result.raises

\* what follows 'UserInputMetaData:' in a text that starts with it
after_prefix(text) == SubSeq(strip(text), 2, Len(strip(text)))

\* C20 as stated: for a text that starts with 'UserInputMetaData:', if a JSON
\* object with a "content" key follows, the result is that object's content,
\* its require_user_input (false when absent) and its metadata; if what
\* follows is no valid JSON, require_user_input is false, metadata is null and
\* content is the original text.
C20_PrefixParseOriginalText ==
  (call_result.ended /\ Head(strip(call_text) \o <<"a">>) = "U") =>
     LET data == json_loads(after_prefix(call_text)) IN
       /\ (data.kind = "dict" /\ data.has_content) =>
             /\ call_result.content = data.content
             /\ call_result.require_user_input = data.require_user_input
             /\ call_result.metadata = data.has_metadata
       /\ data.kind = "error" =>
             /\ ~call_result.require_user_input
             /\ ~call_result.metadata
             /\ call_result.content = call_text

\* C20 amended: as above, but when what follows the prefix is no valid JSON
\* the content is the text with an embedded '{"status":' object cut out,
\* which is the original text only when the text holds no such object.
C20_PrefixParse ==
  (call_result.ended /\ Head(strip(call_text) \o <<"a">>) = "U") =>
     LET data == json_loads(after_prefix(call_text)) IN
       /\ (data.kind = "dict" /\ data.has_content) =>
             /\ call_result.content = data.content
             /\ call_result.require_user_input = data.require_user_input
             /\ call_result.metadata = data.has_metadata
       /\ data.kind = "error" =>
             /\ ~call_result.require_user_input
             /\ ~call_result.metadata
             /\ call_result.content = strip_embedded_json(call_text)
             /\ (~contains(call_text, <<"S">>) =>
                   call_result.content = call_text)

\* C20 witness: a text that starts with the prefix, with no valid JSON after
\* it, has been parsed and its content is not the original text.
C20_Witness ==
  /\ call_result.ended
  /\ Head(strip(call_text) \o <<"a">>) = "U"
  /\ json_loads(after_prefix(call_text)).kind = "error"
  /\ call_result.content # call_text

\* C21, as stated: a text that does not start with 'UserInputMetaData:' and
\* is no JSON is parsed without form (require_user_input false, metadata
\* None), and when it holds no envelope marker its content is the text.
C21_PlainTextNoFormOriginal ==
  (/\ call_result.ended
   /\ ~startswith(call_text, user_input_metadata_prefix)
   /\ json_loads(call_text).kind = "error") =>
     /\ ~call_result.raises
     /\ ~call_result.require_user_input
     /\ ~call_result.metadata
     /\ ~contains(call_text, <<"S">>) => call_result.content = call_text

\* C21, amended: the same for a text that, with the blanks around it
\* removed, does not start with 'UserInputMetaData:'.
C21_PlainTextNoForm ==
  (/\ call_result.ended
   /\ ~startswith(strip(call_text), user_input_metadata_prefix)
   /\ json_loads(call_text).kind = "error") =>
     /\ ~call_result.raises
     /\ ~call_result.require_user_input
     /\ ~call_result.metadata
     /\ ~contains(call_text, <<"S">>) => call_result.content = call_text

\* C21 witness: a text with words around a status envelope has been parsed;
\* the envelope is gone from the content and no form is asked for.
C21_Witness ==
  /\ call_result.ended
  /\ ~startswith(strip(call_text), user_input_metadata_prefix)
  /\ json_loads(call_text).kind = "error"
  /\ contains(call_text, <<"S">>)
  /\ call_result.content # call_text
  /\ call_result.content # <<>>

\* every '{"status":' of the text opens an object that is closed and is
\* JSON
RECURSIVE envelopes_parse(_)
envelopes_parse(t) ==
  LET at == find(t, "S") IN
  IF at = 0 THEN TRUE
  ELSE LET after == SubSeq(t, at + 1, Len(t))
           brace_index == brace_scan(after, 1, 1)
       IN  /\ brace_index > 0
           /\ json_loads(<<"S">> \o SubSeq(after, 1, brace_index)).kind = "dict"
           /\ envelopes_parse(SubSeq(after, 1, brace_index - 1))
           /\ envelopes_parse(SubSeq(after, brace_index + 1, Len(after)))

\* C22, as stated: the sanitized form of a text without '{"status":' is the
\* text without the whitespace around it.
C22_NoEnvelopeIsStripOriginal ==
  (call_result.ended /\ ~contains(call_text, <<"S">>)) =>
    call_result.content = strip(call_text)

\* C22, amended: the same for a text that holds no carriage return and is
\* no JSON object with a message or text field.
C22_NoEnvelopeIsStrip ==
  (/\ call_result.ended
   /\ ~contains(call_text, <<"S">>)
   /\ ~contains(call_text, <<"\r">>)
   /\ LET data == json_loads(call_text)
      IN  ~(data.kind = "dict" /\ (data.has_message \/ data.has_text))) =>
    call_result.content = strip(call_text)

\* C22 witness: a text of words with blanks around it has been sanitized.
C22_Witness ==
  /\ call_result.ended
  /\ ~contains(call_text, <<"S">>)
  /\ ~contains(call_text, <<"\r">>)
  /\ contains(call_text, <<"a">>)
  /\ call_text # strip(call_text)
  /\ call_result.content = strip(call_text)

\* C23: the sanitized form of a text whose envelopes are all closed and
\* parseable holds no '{"status":'.
C23_NoEnvelopeLeft ==
  (call_result.ended /\ envelopes_parse(call_text)) =>
    ~contains(call_result.content, <<"S">>)

\* the text holds a bracketed list literal with at least one dict item
has_record_list(t) ==
  LET list_start == find(t, "[")
      list_end == rfind(t, "]")
  IN  /\ list_start > 0
      /\ list_end > list_start
      /\ LET todos == literal_eval(SubSeq(t, list_start, list_end))
         IN  todos.ok /\ \E i \in 1..Len(todos.items) : todos.items[i] \in Dicts

\* C24: format_execution_plan_text never raises, returns a text without
\* list of records unchanged, and returns its own result unchanged.
C24_FailSoftIdempotent ==
  call_result.ended =>
    /\ ~call_result.raises
    /\ ~has_record_list(call_text) => call_result.content = call_text
    /\ format_execution_plan_text(call_result.content)
         = [raises |-> FALSE, text |-> call_result.content]

\* the bullet the claim gives a record: the icon of its status, then its
\* content or else its task
bullet_of(sym) ==
  LET item == Item(sym)
      icon == CASE item.status \in {"in_progress"} -> "hour"
                [] item.status \in {"completed", "COMPLETED"} -> "check"
                [] item.status \in {"pending"} -> "clip"
                [] OTHER -> "dot"
  IN  <<"-", " ", icon, " ">>
        \o (IF item.content # <<>> THEN item.content ELSE item.task)

\* C25: the result for a list of records that all have a content or a task
\* is a heading, an empty line, and the bullets of the records in order.
C25_OneBulletPerRecord ==
  \A items \in ItemSeqs :
    (/\ call_result.ended
     /\ items # <<>>
     /\ call_text = list_literal(items)
     /\ \A i \in 1..Len(items) :
          /\ items[i] \in Dicts
          /\ Item(items[i]).content # <<>> \/ Item(items[i]).task # <<>>) =>
      /\ ~call_result.raises
      /\ call_result.content =
           newline_join(<<<<"clip", "H">>, <<>>>>
                          \o [i \in 1..Len(items) |-> bullet_of(items[i])])

\* the first line of what stands before the first 'response=', without the
\* whitespace around it
claimed_line(t) ==
  LET before == strip(before_response(strip(t)))
  IN  strip(first_line(before))

\* C26: the summary is one line without 'response=': the first line of the
\* text before the first 'response=' when that has at most 160 characters,
\* else its first 160 characters (trailing blanks dropped) and one ellipsis;
\* it is empty for a text of whitespace.
C26_SummaryOneCappedLine ==
  call_result.ended =>
    LET out == call_result.content
        line == claimed_line(call_text)
    IN  /\ \A i \in 1..Len(out) : out[i] \notin LineBreaks
        /\ ~contains(out, <<"R">>)
        /\ Len(line) <= max_len => out = line
        /\ Len(line) > max_len =>
             /\ out[Len(out)] = "..."
             /\ Len(out) <= max_len + 1
             /\ \E k \in 1..max_len :
                  /\ SubSeq(out, 1, Len(out) - 1) = SubSeq(line, 1, k)
                  /\ \A j \in (k + 1)..max_len : line[j] \in Whitespace
        /\ strip(call_text) = <<>> => out = <<>>

\* C26 witness: a notification whose first line is longer than 160
\* characters and is followed by 'response=' has been summarized.
C26_Witness ==
  /\ call_result.ended
  /\ contains(call_text, <<"R">>)
  /\ Len(claimed_line(call_text)) > max_len
  /\ Len(call_result.content) = max_len
  /\ call_result.content[max_len] = "..."

\* C27: the panel has at most 8 lines, which are the latest entries of the
\* log in their order; no notification text is in the log twice; and a round
\* that has handled a tool_notification_start and then a
\* tool_notification_end of another text, and nothing else, has exactly
\* these two entries, in this order.
C27_ToolPanelBounded ==
  /\ Len(tool_markdown) <= 8
  /\ LET n == Len(tool_entries)
         k == IF n <= 8 THEN n ELSE 8
     IN  /\ Len(tool_markdown) = k
         /\ \A i \in 1..k :
              tool_markdown[i] = <<"-", " ">> \o tool_entries[n - k + i]
  /\ \A i, j \in 1..Len(tool_entries) :
       i # j => SubSeq(tool_entries[i], 3, Len(tool_entries[i]))
                  # SubSeq(tool_entries[j], 3, Len(tool_entries[j]))
  /\ (/\ Len(tool_events) = 2
      /\ tool_events[1].route = "tool_notification_start"
      /\ tool_events[2].route = "tool_notification_end"
      /\ tool_events[1].text # <<>>
      /\ tool_events[2].text # <<>>
      /\ tool_events[1].text # tool_events[2].text) =>
       tool_entries = << <<"hour", " ">> \o tool_events[1].text,
                         <<"check", " ">> \o tool_events[2].text >>

\* C27 witness: the log has nine entries, the panel shows the last eight.
C27_Witness ==
  /\ Len(tool_entries) = 9
  /\ Len(tool_markdown) = 8
  /\ tool_markdown[1] = <<"-", " ">> \o tool_entries[2]

\* the text is, without the whitespace around it, an opening brace, a
\* closing brace and what stands between them, on one line or on several
bare_payload(t) ==
  LET a == strip(t) IN
  /\ Len(a) >= 2
  /\ a[1] \in OpensBrace
  /\ a[Len(a)] = "}"

\* C28: for an answer that is a bare {...} payload render_answer prints the
\* warning and no panel.
C28_RawPayloadNotRendered ==
  (call_result.ended /\ bare_payload(call_text)) =>
    (~call_result.panel /\ call_result.warning)

RECURSIVE leading_whitespace(_)
leading_whitespace(t) ==
  IF t # <<>> /\ Head(t) \in {" ", "\t", "\n"}
  THEN <<Head(t)>> \o leading_whitespace(Tail(t)) ELSE <<>>

\* C30: after a fragment has been merged into a buffer that was not empty,
\* the buffer is the sanitized fragment when that starts with or contains
\* the old buffer; else it is the old buffer, one space, and the sanitized
\* fragment when the fragment as received does not begin with whitespace;
\* else the old buffer, the whitespace the fragment begins with, and the
\* sanitized fragment.
C30_MergeRule ==
  (merge.merged /\ merge.before.response_stream_buffer # <<>>) =>
    LET old == merge.before.response_stream_buffer
        clean == sanitize_stream_text(merge.text)
        new == merge.round.response_stream_buffer
    IN  IF startswith(clean, strip(old)) \/ contains(clean, strip(old))
        THEN new = clean
        ELSE IF old[Len(old)] \notin Whitespace
                  /\ leading_whitespace(merge.text) = <<>>
        THEN new = old \o <<" ">> \o clean
        ELSE new = old \o leading_whitespace(merge.text) \o clean

C32_StatusTextToAllText ==
  (StreamEnded /\ og.status_texts # {} /\ ~og.other_text) =>
    /\ \E t \in og.status_texts : contains(round.all_text, t)
    /\ round.response_stream_buffer = <<>>
    /\ round.final_state_text = <<>>
    /\ round.partial_result_text = <<>>
    /\ round.final_response_text = sanitize_stream_text(round.all_text)

\* C33: when the handler, suspended for the spinner to clear with a tool
\* notification in hand (a tool_notification_start artifact with text, or a
\* status event with tool-notification metadata), goes on, the pass over that
\* event leaves the live dashboard started.
C33_ToolNotificationStartsDashboard ==
  [][(pc = "wait_cleared" /\ pc' # "wait_cleared"
        /\ Lane(cur) \in {"tool_status", "tool_start"})
       => (live' /\ round'.live_started)]_vars

\* the fragments joined with a blank line between them
RECURSIVE blank_line_join(_)
blank_line_join(parts) ==
  IF parts = <<>> THEN <<>>
  ELSE IF Len(parts) = 1 THEN parts[1]
  ELSE parts[1] \o <<"\n", "\n">> \o blank_line_join(Tail(parts))

\* the fragments sanitize_stream_text is left with once adjacent identical
\* ones are removed
surviving_fragments(raw_text) ==
  dedupe(status_scan(remove_cr(raw_text), remove_cr(raw_text), <<>>))

\* C34: sanitize_stream_text returns the longer fragment when two fragments
\* are left after adjacent identical ones are removed, and all of them in
\* order, joined with a blank line, when three or more are left.
C34_TwoLongerElseJoined ==
  call_result.ended =>
    LET deduped == surviving_fragments(call_text) IN
    /\ Len(deduped) = 2 =>
         /\ call_result.content \in {deduped[1], deduped[2]}
         /\ len(call_result.content) >= len(deduped[1])
         /\ len(call_result.content) >= len(deduped[2])
    /\ Len(deduped) >= 3 => call_result.content = blank_line_join(deduped)

\* C35: a round issues the non-streaming request for its message only when
\* iterating its own event stream has raised.
C35_FallbackOnlyAfterStreamError ==
  og.sends > 0 => og.stream_raised

\* the handler is between two events of the stream, or suspended with an
\* event in hand
AtEventBoundary == pc \in {"stream", "wait_cleared"}

C37_BufferOnlyGrows ==
  LET old == merge.before.response_stream_buffer
      new == merge.round.response_stream_buffer
  IN  /\ contains(new, old)
      /\ new # <<>> => (new[1] \notin Whitespace /\ new[Len(new)] \notin Whitespace)

\* C37 witness: a third fragment, received with whitespace in front, has
\* been merged into a buffer that was not empty and has changed it.
C37_Witness ==
  /\ merge.count = 3
  /\ merge.merged
  /\ merge.before.response_stream_buffer # <<>>
  /\ merge.round.response_stream_buffer # merge.before.response_stream_buffer
  /\ leading_whitespace(merge.text) # <<>>

\* C38: in a round live_started implies spinner_stopped, and a stream that
\* has ended without exception has left no dashboard of the round running;
\* from one step of the round to the next neither flag goes back to false,
\* a dashboard is started only in the step that sets live_started, and a
\* dashboard is stopped only in the step that ends the stream.
C38_PhaseFlagsMonotonic ==
  /\ [](/\ round.live_started => round.spinner_stopped
        /\ live => round.live_started
        /\ StreamEnded => ~live)
  /\ [][/\ round'.chunk_count >= round.chunk_count =>
             /\ round.spinner_stopped => round'.spinner_stopped
             /\ round.live_started => round'.live_started
        /\ (~live /\ live') => (~round.live_started /\ round'.live_started)
        /\ (live /\ ~live' /\ ~leaked') =>
             /\ round'.live_started
             /\ og.stream_end = "open"
             /\ og'.stream_end \in {"exhausted", "complete"}]_vars

\* C38 witness: a round of three events has started the dashboard, and the
\* stream has ended without exception with the dashboard stopped.
C38_Witness ==
  /\ StreamEnded
  /\ round.chunk_count = 3
  /\ round.spinner_stopped
  /\ round.live_started
  /\ tg.dashboard_started
  /\ ~live

\* C39: whenever no turn is running (the loop is at its prompt or has ended,
\* or handle_user_input runs or has run without the loop) the two signals
\* are None; a handler running without the loop sets no signal and is never
\* suspended in wait_spinner_cleared; and the step that starts a turn binds
\* both signals, unset.
C39_SignalsOnlyDuringTurn ==
  /\ [](/\ loop_pc \in {"input", "crashed", "direct", "returned"} =>
             (~signals_bound /\ ~stop_event /\ ~spinner_cleared_event)
        /\ loop_pc = "direct" => pc # "wait_cleared")
  /\ [][(loop_pc = "input" /\ loop_pc' = "handling") =>
          (signals_bound' /\ ~stop_event' /\ ~spinner_cleared_event')]_vars

\* C39 witness: a handler called without the loop has gone through an event
\* that stops the spinner, and has returned.
C39_Witness ==
  /\ loop_pc = "returned"
  /\ round.spinner_stopped
  /\ round.chunk_count >= 2


\* C40: spinner_cleared_event is set only while stop_event is set and the
\* spinner task has ended, so that the task draws no frame afterwards; and
\* once stop_event is set while the spinner task is alive, the task sets
\* spinner_cleared_event and ends, unless the loop has left the turn (and
\* cancels the task) first.
C40_StopLeadsToCleared ==
  /\ [](spinner_cleared_event => (stop_event /\ spinner_task = "done"))
  /\ ((stop_event /\ SpinnerPending) ~>
        ((spinner_cleared_event /\ spinner_task = "done")
           \/ loop_pc # "handling"))

\* C40 witness: the handler has set stop_event, the spinner has set
\* spinner_cleared_event and ended, and the handler has gone on.
C40_Witness ==
  /\ loop_pc = "handling"
  /\ stop_event
  /\ spinner_cleared_event
  /\ spinner_task = "done"
  /\ round.spinner_stopped
  /\ round.chunk_count >= 2

====
